---- MODULE Spec2Model ----
(***************************************************************************)
(* ZiVPN Telegram bot (repository KAISARVPN/Premium): the conversational   *)
(* state machine, the event router, the session registry and the broadcast *)
(* fan-out, modelled from the three source files of the repository.        *)
(*                                                                         *)
(* The repository holds three snapshots of one program:                    *)
(*   "part_001"   src/unnamed/part_001 (complete program)                  *)
(*   "part_000"   src/unnamed/part_000 (handlers and messaging rewritten;  *)
(*                "[Fungsi-fungsi lainnya tetap sama...]")                 *)
(*   "zivpn-bot"  src/zivpn-bot.go    (handlers, broadcast, registry and   *)
(*                API gateway rewritten; "BAGIAN LAIN TETAP SAMA")         *)
(* A function a snapshot does not contain is taken from part_001, the only *)
(* complete file; saveChatSession of part_000 (called with three           *)
(* arguments, next to a declared lastSaveTime) is the one of zivpn-bot.go. *)
(* The variable `variant` fixes the snapshot that runs.                    *)
(***************************************************************************)
EXTENDS Integers, Sequences, FiniteSets, TLC

(***************************************************************************)
(* Strings: Go library functions used by the handlers.                     *)
(***************************************************************************)
Char(s, i) == SubSeq(s, i, i)

LowerChars == "abcdefghijklmnopqrstuvwxyz"
UpperChars == "ABCDEFGHIJKLMNOPQRSTUVWXYZ"
DigitChars == "0123456789"
SpaceChars == " "

InChars(c, alphabet) == \E i \in 1..Len(alphabet) : Char(alphabet, i) = c

IndexOf(c, alphabet) == CHOOSE i \in 1..Len(alphabet) : Char(alphabet, i) = c

\* strings.ToLower
RECURSIVE ToLower(_)
ToLower(s) ==
    IF Len(s) = 0 THEN ""
    ELSE LET c == Char(s, 1)
             l == IF InChars(c, UpperChars)
                  THEN Char(LowerChars, IndexOf(c, UpperChars)) ELSE c
         IN l \o ToLower(SubSeq(s, 2, Len(s)))

\* strings.HasPrefix
HasPrefix(s, p) == Len(s) >= Len(p) /\ SubSeq(s, 1, Len(p)) = p

\* strings.TrimPrefix
TrimPrefix(s, p) == IF HasPrefix(s, p) THEN SubSeq(s, Len(p) + 1, Len(s)) ELSE s

\* strings.Contains
Contains(s, sub) ==
    \E i \in 0..(Len(s) - Len(sub)) : SubSeq(s, i + 1, i + Len(sub)) = sub

\* strings.TrimSpace
RECURSIVE TrimLeft(_)
TrimLeft(s) ==
    IF Len(s) > 0 /\ InChars(Char(s, 1), SpaceChars)
    THEN TrimLeft(SubSeq(s, 2, Len(s))) ELSE s

RECURSIVE TrimRight(_)
TrimRight(s) ==
    IF Len(s) > 0 /\ InChars(Char(s, Len(s)), SpaceChars)
    THEN TrimRight(SubSeq(s, 1, Len(s) - 1)) ELSE s

TrimSpace(s) == TrimRight(TrimLeft(s))

\* strings.Split(data, ":"): the parts of data between the separators
RECURSIVE SplitFrom(_, _, _)
SplitFrom(s, sep, cur) ==
    IF Len(s) = 0 THEN <<cur>>
    ELSE IF Char(s, 1) = sep
         THEN <<cur>> \o SplitFrom(SubSeq(s, 2, Len(s)), sep, "")
         ELSE SplitFrom(SubSeq(s, 2, Len(s)), sep, cur \o Char(s, 1))

Split(s, sep) == SplitFrom(s, sep, "")

\* values above AtoiCap are only ever compared with the upper limit 9999
AtoiCap == 100000

\* the digits of s as a number, saturating at AtoiCap
RECURSIVE DigitsValue(_, _)
DigitsValue(s, acc) ==
    IF Len(s) = 0 THEN acc
    ELSE LET v == acc * 10 + (IndexOf(Char(s, 1), DigitChars) - 1)
         IN DigitsValue(SubSeq(s, 2, Len(s)), IF v > AtoiCap THEN AtoiCap ELSE v)

AllDigits(s) == Len(s) > 0 /\ \A i \in 1..Len(s) : InChars(Char(s, i), DigitChars)

\* strconv.Atoi: an optional sign, then decimal digits only
Atoi(s) ==
    LET signed == Len(s) > 0 /\ Char(s, 1) \in {"+", "-"}
        body   == IF signed THEN SubSeq(s, 2, Len(s)) ELSE s
    IN IF ~AllDigits(body) THEN [err |-> TRUE, val |-> 0]
       ELSE [err |-> FALSE,
             val |-> IF signed /\ Char(s, 1) = "-"
                     THEN 0 - DigitsValue(body, 0) ELSE DigitsValue(body, 0)]


\* tgbotapi Message.IsCommand: the text starts with a bot_command entity,
\* "/" followed by letters, digits or underscores
CommandChars == LowerChars \o UpperChars \o DigitChars \o "_"

IsCommand(text) ==
    Len(text) > 1 /\ Char(text, 1) = "/" /\ InChars(Char(text, 2), CommandChars)

\* tgbotapi Message.Command: the command word without the leading slash
RECURSIVE CommandWord(_)
CommandWord(s) ==
    IF Len(s) > 0 /\ InChars(Char(s, 1), CommandChars)
    THEN Char(s, 1) \o CommandWord(SubSeq(s, 2, Len(s))) ELSE ""

Command(text) == IF IsCommand(text) THEN CommandWord(SubSeq(text, 2, Len(text))) ELSE ""

(***************************************************************************)
(* Go maps: a map is a function on the set of its keys.                    *)
(***************************************************************************)
EmptyMap == [x \in {} |-> x]

Put(f, k, v) == [x \in (DOMAIN f) \cup {k} |-> IF x = k THEN v ELSE f[x]]

Del(f, k) == [x \in (DOMAIN f) \ {k} |-> f[x]]

\* reading a missing key of a map[string]string yields ""
Lookup(f, k) == IF k \in DOMAIN f THEN f[k] ELSE ""

\* tempUserData[userID][key]: reading a nil inner map yields "" as well
Field(td, u, key) == IF u \in DOMAIN td THEN Lookup(td[u], key) ELSE ""

(***************************************************************************)
(* Participants and inputs.                                                *)
(***************************************************************************)
Variants == {"part_001", "part_000", "zivpn-bot"}

\* BotConfig.AdminID as loaded from the config file
AdminID == 1

\* the number of participants: the administrator, one user who drives flows,
\* and bystanders who only send idle input and receive broadcasts
NumUsers == 3
Users == 1..NumUsers
UserA == AdminID + 1
UserB == AdminID + 2

\* a group chat: the channel of an event may differ from its sender
GroupChat == 0 - 100

\* the chats a user writes from: the private chat (id = user id), and for
\* UserA also a group chat
ChatsOf(u) == IF u = UserA THEN {u, GroupChat} ELSE {u}

\* From.UserName of each participant
HandleOf(u) == IF u = AdminID THEN "admin" ELSE IF u = UserA THEN "usera" ELSE ""

(***************************************************************************)
(* State.                                                                  *)
(***************************************************************************)
VARIABLES
    variant,       \* the snapshot of the program that runs
    mode,          \* config.Mode: "public" or "private"
    configFile,    \* the mode stored in BotConfigFile
    userStates,    \* map[int64]string: user -> state tag of the flow in progress
    tempUserData,  \* map[int64]map[string]string: user -> collected fields
    activeChats,   \* map[int64]ChatSession: the session registry
    chatsFile,     \* chats.json: whether it exists and the sessions listed in it
    lastSaveTime,  \* "zero" until a load or a debounced save sets it (not in part_001)
    lastMessageIDs,  \* map[int64]int: chat -> id of the message tracked for it
    sentMessages,  \* chat -> number of messages Telegram has accepted for it
    deleteRequests,  \* the deleteMessage requests made so far, in order
    call,          \* "sent" while apiCall waits in client.Do, else "none"
    fanout,        \* the loop of sendBroadcastMessage while it runs, else NoFanout
    crashed,       \* the process died of a Go panic
    ev,            \* the inbound update handled last
    route,         \* the branch of the router that update took
    out            \* what handling it sent, called and wrote, in program order

vars == <<variant, mode, configFile, userStates, tempUserData, activeChats,
          chatsFile, lastSaveTime, lastMessageIDs, sentMessages, deleteRequests,
          call, fanout, crashed, ev, route, out>>

\* the state of the conversations, the registry and the files
progVars == <<variant, mode, configFile, userStates, tempUserData, activeChats,
              chatsFile, lastSaveTime, crashed, route>>

\* the tracked messages and what Telegram has seen of them
trackVars == <<lastMessageIDs, sentMessages, deleteRequests>>

\* where the handler that runs has got to
loopVars == <<call, fanout>>

\* no broadcast loop runs
NoFanout == [todo |-> <<>>, message |-> "", sent |-> 0 - 1, failed |-> 0 - 1]

\* The handlers are sequential code over the process-wide maps: each Go
\* function is an operator from the machine state m before the call to the
\* machine state after it.  clock and slow are what the handler reads from
\* the wall clock: whether more than 30 seconds have passed since
\* lastSaveTime when the update arrives, and whether more than a minute has
\* passed since lastSaveTime when a broadcast loop ends.
Machine ==
    [mode |-> mode, cfg |-> configFile, us |-> userStates, td |-> tempUserData,
     ac |-> activeChats, file |-> chatsFile, lst |-> lastSaveTime,
     clock |-> "long", slow |-> FALSE,
     crashed |-> FALSE, route |-> "none", out |-> <<>>]

\* the machine when the update arrives at another time
MachineAt(clock, slow) ==
    [Machine EXCEPT !.clock = IF lastSaveTime = "zero" THEN "long" ELSE clock,
                    !.slow = slow]

Emit(m, o) == [m EXCEPT !.out = Append(@, o)]

Routed(m, r) == [m EXCEPT !.route = r]

\* a Go panic ends the process: nothing after it runs
Panic(m) == [m EXCEPT !.crashed = TRUE]

\* bot.Send of a message that is not tracked
Send(m, chat, tag) == Emit(m, [k |-> "send", to |-> chat, tag |-> tag])

\* func sendAndTrack, as the handlers see it: the message goes out.  No
\* handler reads lastMessageIDs; what sendAndTrack and deleteLastMessage do
\* with it is in sendAndTrackIDs and deleteLastMessage below.
sendAndTrack(m, o) == Emit(m, o)

\* deleteLastMessage without the delete from the map
deleteLastMessage_KeepsID(t, chat) ==
    IF chat \in DOMAIN t.ids
    THEN [t EXCEPT !.req = Append(@, [chat |-> chat, id |-> t.ids[chat]])]
    ELSE t

\* func deleteLastMessage on t = [ids: lastMessageIDs, req: the delete
\* requests made]
deleteLastMessage(t, chat) ==
    IF chat \in DOMAIN t.ids
    THEN [ids |-> Del(t.ids, chat),
          req |-> Append(t.req, [chat |-> chat, id |-> t.ids[chat]])]
    ELSE t

\* func sendAndTrack on the tracked ids: ok is err == nil of bot.Send, id is
\* sentMsg.MessageID
sendAndTrackIDs(t, chat, ok, id) ==
    LET t1 == deleteLastMessage(t, chat)
    IN IF ok THEN [t1 EXCEPT !.ids = Put(@, chat, id)] ELSE t1

\* func sendMessage: the cancel button is attached when userStates has the
\* CHAT id as a key
sendMessage(m, chat, tag) ==
    sendAndTrack(m, [k |-> "msg", to |-> chat, tag |-> tag,
                     cancel |-> chat \in DOMAIN m.us])

\* func replyError
replyError(m, chat, tag) == sendMessage(m, chat, tag)

\* func showMainMenu
showMainMenu(m, chat) == sendAndTrack(m, [k |-> "menu", to |-> chat])

\* func sendWelcomeMessage
sendWelcomeMessage(m, chat) == Send(m, chat, "welcome")

\* resetState without its second delete: the scratch data stay behind
resetState_KeepsScratch(m, u) == [m EXCEPT !.us = Del(@, u)]

\* func resetState
resetState(m, u) == [m EXCEPT !.us = Del(@, u), !.td = Del(@, u)]

\* func cancelOperation
cancelOperation(m, chat, u) == showMainMenu(resetState(m, u), chat)

\* isAllowed without the mode test: every sender passes
isAllowed_Everyone(m, u) == TRUE

\* func isAllowed
isAllowed(m, u) == m.mode = "public" \/ u = AdminID

\* func saveConfig
saveConfig(m) == [m EXCEPT !.cfg = m.mode]

\* toggleMode that only ever switches to private
toggleMode_OnlyToPrivate(m, chat, u) ==
    IF u # AdminID THEN m
    ELSE LET m2 == saveConfig([m EXCEPT !.mode = "private"])
         IN showMainMenu(Send(m2, chat, "mode_private"), chat)

\* toggleMode without the test for the administrator
toggleMode_AnyUser(m, chat, u) ==
    LET m1 == [m EXCEPT !.mode = IF m.mode = "public" THEN "private" ELSE "public"]
        m2 == saveConfig(m1)
        m3 == Send(m2, chat, IF m2.mode = "public" THEN "mode_public" ELSE "mode_private")
    IN showMainMenu(m3, chat)

\* func toggleMode
toggleMode(m, chat, u) ==
    IF u # AdminID THEN m
    ELSE LET m1 == [m EXCEPT !.mode = IF m.mode = "public" THEN "private" ELSE "public"]
             m2 == saveConfig(m1)
             m3 == Send(m2, chat, IF m2.mode = "public" THEN "mode_public" ELSE "mode_private")
         IN showMainMenu(m3, chat)

(***************************************************************************)
(* Validation helpers.                                                     *)
(***************************************************************************)
NameChars == LowerChars \o UpperChars \o DigitChars \o "_-"

\* regexp ^[a-zA-Z0-9_-]+$
MatchesNameRegexp(text) ==
    Len(text) > 0 /\ \A i \in 1..Len(text) : InChars(Char(text, i), NameChars)

MinNameLen == 3
MaxNameLen == 20

\* validateUsername without the upper length limit
validateUsername_NoUpperLimit(m, chat, text) ==
    IF Len(text) < MinNameLen
    THEN [ok |-> FALSE, m |-> sendMessage(m, chat, "err_name_length")]
    ELSE IF ~MatchesNameRegexp(text)
    THEN [ok |-> FALSE, m |-> sendMessage(m, chat, "err_name_charset")]
    ELSE [ok |-> TRUE, m |-> m]

\* func validateUsername: [ok, m]
validateUsername(m, chat, text) ==
    IF Len(text) < MinNameLen \/ Len(text) > MaxNameLen
    THEN [ok |-> FALSE, m |-> sendMessage(m, chat, "err_name_length")]
    ELSE IF ~MatchesNameRegexp(text)
    THEN [ok |-> FALSE, m |-> sendMessage(m, chat, "err_name_charset")]
    ELSE [ok |-> TRUE, m |-> m]

MinDays == 1
MaxDays == 9999

\* validateNumber without the lower limit
validateNumber_NoLowerLimit(m, chat, text, min, max) ==
    LET a == Atoi(text)
    IN IF a.err \/ a.val > max
       THEN [ok |-> FALSE, val |-> 0, m |-> sendMessage(m, chat, "err_number")]
       ELSE [ok |-> TRUE, val |-> a.val, m |-> m]

\* func validateNumber: [ok, val, m]
validateNumber(m, chat, text, min, max) ==
    LET a == Atoi(text)
    IN IF a.err \/ a.val < min \/ a.val > max
       THEN [ok |-> FALSE, val |-> 0, m |-> sendMessage(m, chat, "err_number")]
       ELSE [ok |-> TRUE, val |-> a.val, m |-> m]

(***************************************************************************)
(* Session registry.                                                       *)
(***************************************************************************)
ChatSession(u, chat, handle) == [UserID |-> u, ChatID |-> chat, Username |-> handle]

\* the keys of a set of integers in ascending order
RECURSIVE Ascending(_)
Ascending(S) ==
    IF S = {} THEN <<>>
    ELSE LET x == CHOOSE y \in S : \A z \in S : y <= z
         IN <<x>> \o Ascending(S \ {x})

\* chats.json: absent, or a list of sessions
NoFile == [exists |-> FALSE, sessions |-> <<>>]
FileOf(sessions) == [exists |-> TRUE, sessions |-> sessions]

\* func saveChats: the sessions of the registry, one entry for each key.  Go
\* lists them in the order of the map iteration; as no two entries have the
\* same UserID, a load gives the same registry for every order, and the list
\* is kept in ascending order of the keys.
saveChats(m) ==
    LET keys == Ascending(DOMAIN m.ac)
    IN [m EXCEPT !.file = FileOf([i \in 1..Len(keys) |-> m.ac[keys[i]]])]

\* the loop of loadChats that keeps the entry already loaded
RECURSIVE LoadSessions_FirstWins(_, _)
LoadSessions_FirstWins(sessions, acc) ==
    IF Len(sessions) = 0 THEN acc
    ELSE LoadSessions_FirstWins(
           Tail(sessions),
           IF Head(sessions).UserID \in DOMAIN acc THEN acc
           ELSE Put(acc, Head(sessions).UserID, Head(sessions)))

\* the loop of loadChats: activeChats[session.UserID] = session
RECURSIVE LoadSessions(_, _)
LoadSessions(sessions, acc) ==
    IF Len(sessions) = 0 THEN acc
    ELSE LoadSessions(Tail(sessions), Put(acc, Head(sessions).UserID, Head(sessions)))

\* func loadChats: the registry after startup
loadChats(file) == IF file.exists THEN LoadSessions(file.sessions, EmptyMap) ELSE EmptyMap

\* lastSaveTime after loadChats: zivpn-bot.go sets it when the file was read
LoadedSaveTime(file) ==
    IF variant # "part_001" /\ file.exists THEN "set" ELSE "zero"

\* saveChatSession over a registry that is appended to like a list: the new
\* session goes under the next free index instead of under the user's id
saveChatSession_Appends(m, u, chat, handle) ==
    [m EXCEPT !.ac = Put(@, Cardinality(DOMAIN m.ac) + 1, ChatSession(u, chat, handle))]

\* func saveChatSession.  part_001 inserts a session only for a user that has
\* none (its ChatSession has no Username); the other snapshots overwrite the
\* session on every call.
saveChatSession(m, u, chat, handle) ==
    IF variant = "part_001"
    THEN IF u \notin DOMAIN m.ac
         THEN saveChats([m EXCEPT !.ac = Put(@, u, ChatSession(u, chat, ""))])
         ELSE m
    ELSE LET m1 == [m EXCEPT !.ac = Put(@, u, ChatSession(u, chat, handle))]
         IN IF m1.clock = "long"   \* time.Since(lastSaveTime) > 30*time.Second
            THEN [saveChats(m1) EXCEPT !.lst = "set", !.clock = "short"]
            ELSE m1

(***************************************************************************)
(* Backend gateway.                                                        *)
(***************************************************************************)
\* what the provisioning API does with one request
BackendReplies == {"down", "garbage", "fail", "ok", "ok_nodata"}

\* func apiCall: [err, success, data].  part_001 ignores the result of
\* json.Unmarshal, so a body that is not JSON yields an empty envelope and no
\* error; zivpn-bot.go returns the parse error.
apiCall(reply) ==
    CASE reply = "down"      -> [err |-> TRUE,  success |-> FALSE, data |-> FALSE]
      [] reply = "garbage"   -> IF variant = "zivpn-bot"
                                THEN [err |-> TRUE,  success |-> FALSE, data |-> FALSE]
                                ELSE [err |-> FALSE, success |-> FALSE, data |-> FALSE]
      [] reply = "fail"      -> [err |-> FALSE, success |-> FALSE, data |-> FALSE]
      [] reply = "ok"        -> [err |-> FALSE, success |-> TRUE,  data |-> TRUE]
      [] reply = "ok_nodata" -> [err |-> FALSE, success |-> TRUE,  data |-> FALSE]

Called(m, endpoint, password, days, reply) ==
    Emit(m, [k |-> "api", ep |-> endpoint, password |-> password,
             days |-> days, reply |-> reply])

\* func sendAccountInfo
sendAccountInfo(m, chat) == showMainMenu(Send(m, chat, "account_info"), chat)

\* the part of createUser and renewUser after the call
AccountReply(m, chat, res) ==
    IF res.err THEN replyError(m, chat, "err_api")
    ELSE IF res.success
    THEN IF res.data THEN sendAccountInfo(m, chat)
         ELSE Panic(m)   \* res["data"].(map[string]interface{}) on a missing value
    ELSE showMainMenu(replyError(m, chat, "err_backend"), chat)

\* func createUser: the machine states it can end in
createUser(m, chat, username, days) ==
    { AccountReply(Called(m, "/user/create", username, days, r), chat, apiCall(r)) :
        r \in BackendReplies }

\* func renewUser
renewUser(m, chat, username, days) ==
    { AccountReply(Called(m, "/user/renew", username, days, r), chat, apiCall(r)) :
        r \in BackendReplies }

\* func deleteUser
deleteUser(m, chat, username) ==
    { LET m1  == Called(m, "/user/delete", username, 0, r)
          res == apiCall(r)
      IN IF res.err THEN replyError(m1, chat, "err_api")
         ELSE IF res.success THEN showMainMenu(Send(m1, chat, "deleted"), chat)
         ELSE showMainMenu(replyError(m1, chat, "err_backend"), chat) :
        r \in BackendReplies }

\* the accounts the backend lists
Accounts == <<"alice">>

\* func getUsers: [err, users]; a reply without data decodes to no users in
\* part_001 and is an error in zivpn-bot.go
getUsers(reply) ==
    LET res == apiCall(reply)
    IN IF res.err \/ ~res.success THEN [err |-> TRUE, users |-> <<>>]
       ELSE IF res.data THEN [err |-> FALSE, users |-> Accounts]
       ELSE IF variant = "zivpn-bot" THEN [err |-> TRUE, users |-> <<>>]
       ELSE [err |-> FALSE, users |-> <<>>]

\* func listUsers
listUsers(m, chat) ==
    { LET m1  == Called(m, "/users", "", 0, r)
          res == apiCall(r)
      IN IF res.err THEN replyError(m1, chat, "err_api")
         ELSE IF res.success
         THEN IF res.data THEN sendAndTrack(m1, [k |-> "list", to |-> chat])
              ELSE Panic(m1)   \* res["data"].([]interface{})
         ELSE replyError(m1, chat, "err_list") :
        r \in BackendReplies }

\* func systemInfo
systemInfo(m, chat) ==
    { LET m1  == Called(m, "/info", "", 0, r)
          res == apiCall(r)
      IN IF res.err THEN replyError(m1, chat, "err_api")
         ELSE IF res.success
         THEN IF res.data THEN showMainMenu(Send(m1, chat, "system_info"), chat)
              ELSE Panic(m1)
         ELSE replyError(m1, chat, "err_info") :
        r \in BackendReplies }

(***************************************************************************)
(* Selection lists.                                                        *)
(***************************************************************************)
\* fmt.Sprintf("%d", n) for n >= 0
RECURSIVE Itoa(_)
Itoa(n) ==
    IF n < 10 THEN Char(DigitChars, n + 1)
    ELSE Itoa(n \div 10) \o Char(DigitChars, (n % 10) + 1)

Min(a, b) == IF a < b THEN a ELSE b

\* the page shown for a requested page: clamped to 1..totalPages
ClampPage(page, total, perPage) ==
    LET totalPages == (total + perPage - 1) \div perPage
        p1         == IF page < 1 THEN 1 ELSE page
    IN [page |-> IF p1 > totalPages THEN totalPages ELSE p1, totalPages |-> totalPages]

\* the tokens of the buttons of one page of a selection list
PageButtons(users, prefix, navPrefix, page, perPage, menuButton) ==
    LET cp    == ClampPage(page, Len(users), perPage)
        start == (cp.page - 1) * perPage
        end   == Min(start + perPage, Len(users))
    IN [i \in 1..(end - start) |-> prefix \o users[start + i]]
       \o (IF cp.page > 1 THEN <<navPrefix \o Itoa(cp.page - 1)>> ELSE <<>>)
       \o (IF menuButton THEN <<"cancel">> ELSE <<>>)
       \o (IF cp.page < cp.totalPages THEN <<navPrefix \o Itoa(cp.page + 1)>> ELSE <<>>)
       \o (IF menuButton THEN <<>> ELSE <<"cancel">>)

PerPage == 10

\* func showUserSelection
showUserSelection(m, chat, page, action) ==
    { LET m1 == Called(m, "/users", "", 0, r)
          g  == getUsers(r)
      IN IF g.err THEN replyError(m1, chat, "err_users")
         ELSE IF Len(g.users) = 0 THEN sendMessage(m1, chat, "no_users")
         ELSE sendAndTrack(m1,
                [k |-> "select", to |-> chat, action |-> action,
                 page |-> ClampPage(page, Len(g.users), PerPage).page,
                 buttons |-> PageButtons(g.users, "select_" \o action \o ":",
                                         "page_" \o action \o ":", page, PerPage, FALSE)]) :
        r \in BackendReplies }

PerPageMessage == 8

\* func showUserSelectionForMessage
showUserSelectionForMessage(m, chat, page) ==
    { LET m1 == Called(m, "/users", "", 0, r)
          g  == getUsers(r)
      IN IF g.err THEN replyError(m1, chat, "err_users")
         ELSE IF Len(g.users) = 0 THEN sendMessage(m1, chat, "no_users")
         ELSE sendAndTrack(m1,
                [k |-> "select", to |-> chat, action |-> "user_msg",
                 page |-> ClampPage(page, Len(g.users), PerPageMessage).page,
                 buttons |-> PageButtons(g.users, "select_user_msg:", "page_msg:",
                                         page, PerPageMessage, TRUE)]) :
        r \in BackendReplies }

\* func startSelectUserForMessage
startSelectUserForMessage(m, chat, u) == showUserSelectionForMessage(m, chat, 1)

\* func handlePagination: parts[1] of a token without ":" is out of range
handlePagination(m, chat, data) ==
    LET parts == Split(data, ":")
    IN IF Len(parts) < 2 THEN {Panic(m)}
       ELSE LET action == SubSeq(parts[1], 6, Len(parts[1]))
                a      == Atoi(parts[2])
            IN showUserSelection(m, chat, IF a.err THEN 0 ELSE a.val, action)

\* func confirmDeleteUser
confirmDeleteUser(m, chat, data) ==
    sendAndTrack(m, [k |-> "confirm", to |-> chat,
                     buttons |-> <<"confirm_delete:" \o TrimPrefix(data, "select_delete:"),
                                   "cancel">>])

(***************************************************************************)
(* Starting a flow.                                                        *)
(***************************************************************************)
\* startCreateUser without the new scratch map
startCreateUser_NoScratch(m, chat, u) ==
    sendMessage([m EXCEPT !.us = Put(@, u, "create_username")], chat, "prompt_name")

\* func startCreateUser
startCreateUser(m, chat, u) ==
    sendMessage([m EXCEPT !.us = Put(@, u, "create_username"),
                          !.td = Put(@, u, EmptyMap)],
                chat, "prompt_name")

\* func startRenewUser
startRenewUser(m, chat, u, data) ==
    sendMessage([m EXCEPT !.td = Put(@, u, Put(EmptyMap, "username",
                                                 TrimPrefix(data, "select_renew:"))),
                          !.us = Put(@, u, "renew_days")],
                chat, "prompt_renew_days")

\* func startBroadcastMessage
startBroadcastMessage(m, chat, u) ==
    sendMessage([m EXCEPT !.us = Put(@, u, "broadcast_message")], chat, "prompt_broadcast")

\* func startPrivateMessage
startPrivateMessage(m, chat, u, username) ==
    sendMessage([m EXCEPT !.td = Put(@, u, Put(EmptyMap, "target_user", username)),
                          !.us = Put(@, u, "private_message")],
                chat, "prompt_private")

\* func startRestore
startRestore(m, chat, u) ==
    sendMessage([m EXCEPT !.us = Put(@, u, "waiting_restore_file")], chat, "prompt_restore")

\* func showMessageMenu
showMessageMenu(m, chat) == sendAndTrack(m, [k |-> "submenu", to |-> chat, tag |-> "message"])

\* func showBackupRestoreMenu
showBackupRestoreMenu(m, chat) ==
    sendAndTrack(m, [k |-> "submenu", to |-> chat, tag |-> "backup_restore"])

\* func showMessageStats (part_000 sends it tracked, zivpn-bot.go untracked)
showMessageStats(m, chat) ==
    IF variant = "part_000" THEN sendMessage(m, chat, "stats") ELSE Send(m, chat, "stats")

\* func checkStatus
checkStatus(m, chat) == Send(m, chat, "status")

\* func sendHelpMessage
sendHelpMessage(m, chat) == Send(m, chat, "help")

\* func performBackup: writing the archive to /tmp may fail
performBackup(m, chat) ==
    LET m1 == sendMessage(m, chat, "backup_progress")
    IN { replyError(m1, chat, "err_backup"),
         Emit(m1, [k |-> "document", to |-> chat]) }

(***************************************************************************)
(* Broadcast and private delivery.                                         *)
(***************************************************************************)
\* the test that makes sendBroadcastMessage cancel instead of sending
IsBroadcastCancel(message) ==
    CASE variant = "part_001"  -> message = "/cancel"
      [] variant = "part_000"  -> Contains(ToLower(message), "cancel")
      [] variant = "zivpn-bot" -> ToLower(message) = "/cancel" \/ message = "cancel"

\* the body of the loop with the delete after every attempt, failed or not
BroadcastOne_RemovesEveryRecipient(acc, u, message, fails) ==
    IF u = AdminID THEN acc
    ELSE LET okSend == u \notin fails
             m1     == Emit(acc.m, [k |-> "deliver", kind |-> "broadcast", uid |-> u,
                                    to |-> acc.m.ac[u].ChatID, text |-> message,
                                    ok |-> okSend])
         IN [m |-> [m1 EXCEPT !.ac = Del(@, u)],
             sent |-> acc.sent + (IF okSend THEN 1 ELSE 0),
             failed |-> acc.failed + (IF okSend THEN 0 ELSE 1)]

\* the body of the loop `for userID, session := range activeChats` of
\* sendBroadcastMessage for one key: acc is [m, sent, failed]
BroadcastOne(acc, u, message, fails) ==
    IF u = AdminID THEN acc
    ELSE LET session == acc.m.ac[u]
             okSend  == u \notin fails
             m1      == Emit(acc.m, [k |-> "deliver", kind |-> "broadcast", uid |-> u,
                                     to |-> session.ChatID, text |-> message,
                                     ok |-> okSend])
         IN IF okSend
            THEN [m |-> m1, sent |-> acc.sent + 1, failed |-> acc.failed]
            ELSE [m |-> IF variant = "part_001"
                        THEN [m1 EXCEPT !.ac = Del(@, u)]   \* delete(activeChats, userID)
                        ELSE m1,
                  sent |-> acc.sent, failed |-> acc.failed + 1]

\* the loop with a `break` after the first failed delivery
RECURSIVE BroadcastLoop_StopsAtFailure(_, _, _, _)
BroadcastLoop_StopsAtFailure(acc, keys, message, fails) ==
    IF Len(keys) = 0 \/ acc.failed > 0 THEN acc
    ELSE BroadcastLoop_StopsAtFailure(BroadcastOne(acc, Head(keys), message, fails),
                                      Tail(keys), message, fails)

\* the loop over the keys that are still to come.  Go visits the keys in an
\* unspecified order; an entry deleted here is the one just visited, so every
\* entry is visited once, and the outcome does not depend on the order.
RECURSIVE BroadcastLoop(_, _, _, _)
BroadcastLoop(acc, keys, message, fails) ==
    IF Len(keys) = 0 THEN acc
    ELSE BroadcastLoop(BroadcastOne(acc, Head(keys), message, fails),
                       Tail(keys), message, fails)

\* what sendBroadcastMessage does with chats.json after the loop: part_001
\* saves, zivpn-bot.go saves when lastSaveTime is more than a minute ago,
\* part_000 does nothing
BroadcastSave(acc) ==
    CASE variant = "part_001" -> [acc EXCEPT !.m = saveChats(acc.m)]
      [] variant = "zivpn-bot" /\ acc.m.slow -> [acc EXCEPT !.m = saveChats(acc.m)]
      [] OTHER -> acc

\* the report sent to the initiator after the loop
BroadcastReport(acc, chat) ==
    Emit(acc.m, [k |-> "report", to |-> chat, sent |-> acc.sent, failed |-> acc.failed,
                 total |-> Cardinality(DOMAIN acc.m.ac) - 1])

\* func sendBroadcastMessage: one outcome for each set of recipients whose
\* delivery fails
sendBroadcastMessage(m, chat, message) ==
    IF IsBroadcastCancel(message) THEN {cancelOperation(m, chat, AdminID)}
    ELSE LET m1 == Send(m, chat, "broadcast_status")
         IN { showMainMenu(
                BroadcastReport(
                  BroadcastSave(
                    BroadcastLoop([m |-> m1, sent |-> 0, failed |-> 0],
                                  Ascending(DOMAIN m1.ac), message, fails)),
                  chat),
                chat) :
              fails \in SUBSET ((DOMAIN m1.ac) \ {AdminID}) }

\* the test that makes sendPrivateMessageToUser cancel instead of sending
IsPrivateCancel(message) ==
    IF variant = "part_000" THEN ToLower(message) = "cancel" ELSE message = "/cancel"

InSeq(x, seq) == \E i \in 1..Len(seq) : seq[i] = x

RECURSIVE EmitAll(_, _)
EmitAll(m, os) == IF Len(os) = 0 THEN m ELSE EmitAll(Emit(m, Head(os)), Tail(os))

\* the loop `for userID, session := range activeChats` of part_001's
\* sendPrivateMessageToUser: it sends to the sessions in the order Go visits
\* them and stops at the first send that succeeds.  One outcome for each
\* choice of the session reached first (winner, 0 for none) and of the
\* sessions tried in vain before it.
PrivateAttempts(m, message, winner, before) ==
    LET tried == Ascending(before)
    IN [i \in 1..Len(tried) |->
          [k |-> "deliver", kind |-> "private", uid |-> tried[i],
           to |-> m.ac[tried[i]].ChatID, text |-> message, ok |-> FALSE]]
       \o (IF winner = 0 THEN <<>>
           ELSE <<[k |-> "deliver", kind |-> "private", uid |-> winner,
                   to |-> m.ac[winner].ChatID, text |-> message, ok |-> TRUE]>>)

\* func sendPrivateMessageToUser
sendPrivateMessageToUser(m, chat, username, message) ==
    IF IsPrivateCancel(message) THEN {cancelOperation(m, chat, AdminID)}
    ELSE IF variant = "part_000"
    THEN { LET m1 == sendMessage(m, chat, "private_status")
               m2 == Called(m1, "/users", "", 0, r)
               g  == getUsers(r)
           IN IF g.err THEN replyError(m2, chat, "err_users")
              ELSE IF ~InSeq(username, g.users) THEN replyError(m2, chat, "err_not_found")
              ELSE showMainMenu(Send(m2, chat, "private_sent"), chat) :
             r \in BackendReplies }
    ELSE UNION {
           LET m1 == Called(m, "/users", "", 0, r)
               g  == getUsers(r)
           IN IF g.err THEN {replyError(m1, chat, "err_users")}
              ELSE IF ~InSeq(username, g.users) THEN {replyError(m1, chat, "err_not_found")}
              ELSE LET m2 == Send(m1, chat, "private_status")
                   IN { showMainMenu(
                          Send(EmitAll(m2, PrivateAttempts(m2, message, o.w, o.b)), chat,
                               IF o.w = 0 THEN "private_failed" ELSE "private_sent"),
                          chat) :
                        o \in { x \in [w : (DOMAIN m2.ac) \cup {0},
                                       b : SUBSET (DOMAIN m2.ac)] :
                                  /\ x.w \notin x.b
                                  /\ (x.w = 0 => x.b = DOMAIN m2.ac) } } :
             r \in BackendReplies }

(***************************************************************************)
(* Restore.                                                                *)
(***************************************************************************)
\* validFiles of processRestoreFile
ValidFiles == {"config.json", "users.json", "bot-config.json", "domain", "apikey", "api_port"}

ConfigDir == "/etc/zivpn"

\* filepath.Clean on the elements of a rooted path: empty elements and "."
\* are dropped, ".." removes the element before it
RECURSIVE CleanElements(_, _)
CleanElements(elems, acc) ==
    IF Len(elems) = 0 THEN acc
    ELSE LET h == Head(elems)
         IN CleanElements(Tail(elems),
                          IF h = "" \/ h = "." THEN acc
                          ELSE IF h = ".."
                          THEN (IF Len(acc) = 0 THEN acc ELSE SubSeq(acc, 1, Len(acc) - 1))
                          ELSE Append(acc, h))

RECURSIVE JoinElements(_)
JoinElements(elems) ==
    IF Len(elems) = 0 THEN ""
    ELSE "/" \o Head(elems) \o JoinElements(Tail(elems))

\* filepath.Join(dir, name) for a rooted dir
PathJoin(dir, name) ==
    LET c == JoinElements(CleanElements(Split(dir \o "/" \o name, "/"), <<>>))
    IN IF c = "" THEN "/" ELSE c

\* the loop over zipReader.File without the test of validFiles
RECURSIVE RestoreEntries_NoAllowList(_, _, _)
RestoreEntries_NoAllowList(m, entries, unwritable) ==
    IF Len(entries) = 0 THEN m
    ELSE LET name == Head(entries)
         IN RestoreEntries_NoAllowList(
              IF name \notin unwritable
              THEN Emit(m, [k |-> "write", path |-> PathJoin(ConfigDir, name)])
              ELSE m,
              Tail(entries), unwritable)

\* the loop over zipReader.File: an entry is written when its name is in
\* validFiles and it can be opened and created (unwritable: those that cannot)
RECURSIVE RestoreEntries(_, _, _)
RestoreEntries(m, entries, unwritable) ==
    IF Len(entries) = 0 THEN m
    ELSE LET name == Head(entries)
         IN RestoreEntries(
              IF name \in ValidFiles /\ name \notin unwritable
              THEN Emit(m, [k |-> "write", path |-> PathJoin(ConfigDir, name)])
              ELSE m,
              Tail(entries), unwritable)

\* what can go wrong before the archive is read
DownloadFailures == {"err_download", "err_download_content", "err_read", "err_zip"}

\* an uploaded document: the step at which fetching it fails ("" for none)
\* and the entry names of the archive it holds
Upload(fail, entries) == [fail |-> fail, entries |-> entries]

\* a message without a document
NoUpload == Upload("absent", <<>>)

\* processRestoreFile with the resetState at its end: a return after a
\* failed download leaves the state as it is
processRestoreFile_ResetsAtEnd(m, chat, u, upload) ==
    LET m1 == sendMessage(m, chat, "restore_progress")
    IN IF upload.fail \in DownloadFailures THEN {replyError(m1, chat, upload.fail)}
       ELSE { showMainMenu(
                resetState(
                  Send(Emit(RestoreEntries(m1, upload.entries, unwritable),
                            [k |-> "restart", services |-> "zivpn, zivpn-api, zivpn-bot"]),
                       chat, "restore_ok"),
                  u),
                chat) :
              unwritable \in SUBSET { upload.entries[i] : i \in 1..Len(upload.entries) } }

\* func processRestoreFile
processRestoreFile(m, chat, u, upload) ==
    LET m1 == sendMessage(resetState(m, u), chat, "restore_progress")
    IN IF upload.fail \in DownloadFailures THEN {replyError(m1, chat, upload.fail)}
       ELSE { showMainMenu(
                Send(Emit(RestoreEntries(m1, upload.entries, unwritable),
                          [k |-> "restart", services |-> "zivpn, zivpn-api, zivpn-bot"]),
                     chat, "restore_ok"),
                chat) :
              unwritable \in SUBSET { upload.entries[i] : i \in 1..Len(upload.entries) } }

(***************************************************************************)
(* The conversation state machine.                                         *)
(***************************************************************************)
\* handleState without the resetState after the backend call
ResetUnlessCrashed_KeepsState(ms, u) == ms

\* the statement after a call that may have panicked
ResetUnlessCrashed(ms, u) == { IF x.crashed THEN x ELSE resetState(x, u) : x \in ms }

\* func handleState
handleState(m, u, chat, msgText, state) ==
    LET text == TrimSpace(msgText)
    IN CASE state = "create_username" ->
              LET v == validateUsername(m, chat, text)
              IN IF ~v.ok THEN {v.m}
                 ELSE IF u \notin DOMAIN m.td
                 THEN {Panic(m)}   \* assignment to an entry of a nil map
                 ELSE {sendMessage([m EXCEPT !.td = Put(@, u, Put(m.td[u], "username", text)),
                                             !.us = Put(@, u, "create_days")],
                                   chat, "prompt_days")}
         [] state = "create_days" ->
              LET v == validateNumber(m, chat, text, MinDays, MaxDays)
              IN IF ~v.ok THEN {v.m}
                 ELSE ResetUnlessCrashed(
                        createUser(m, chat, Field(m.td, u, "username"), v.val), u)
         [] state = "renew_days" ->
              LET v == validateNumber(m, chat, text, MinDays, MaxDays)
              IN IF ~v.ok THEN {v.m}
                 ELSE ResetUnlessCrashed(
                        renewUser(m, chat, Field(m.td, u, "username"), v.val), u)
         [] state = "broadcast_message" ->
              ResetUnlessCrashed(sendBroadcastMessage(m, chat, text), u)
         [] state = "private_message" ->
              IF u \in DOMAIN m.td
              THEN ResetUnlessCrashed(
                     sendPrivateMessageToUser(m, chat, Lookup(m.td[u], "target_user"), text), u)
              ELSE {m}
         [] OTHER -> {m}

(***************************************************************************)
(* The router.                                                             *)
(***************************************************************************)
\* the switch on msg.Command() of handleMessage
handleCommand(m, u, chat, cmd) ==
    CASE cmd = "start" -> {showMainMenu(sendWelcomeMessage(m, chat), chat)}
      [] cmd = "broadcast" ->
           IF u = AdminID THEN {startBroadcastMessage(m, chat, u)} ELSE {m}
      [] cmd = "message" ->
           IF u # AdminID THEN {m}
           ELSE IF variant = "part_000" THEN {showMessageMenu(m, chat)}
           ELSE startSelectUserForMessage(m, chat, u)
      [] cmd = "status" /\ variant # "part_001" -> {checkStatus(m, chat)}
      [] cmd = "help" /\ variant = "part_000" -> {sendHelpMessage(m, chat)}
      [] OTHER -> {replyError(m, chat, "err_unknown_command")}

\* handleMessage with the command switch ahead of the test for a state
handleMessage_CommandsFirst(m0, u, chat, text, upload) ==
    LET m == saveChatSession(m0, u, chat, HandleOf(u))
    IN IF ~isAllowed(m, u)
       THEN {replyError(Routed(m, "denied"), chat, "err_access_denied")}
       ELSE IF /\ upload # NoUpload
               /\ u = AdminID
               /\ u \in DOMAIN m.us
               /\ m.us[u] = "waiting_restore_file"
       THEN processRestoreFile(Routed(m, "restore"), chat, u, upload)
       ELSE IF IsCommand(text)
       THEN handleCommand(Routed(m, "command"), u, chat, Command(text))
       ELSE IF u \in DOMAIN m.us
       THEN handleState(Routed(m, "state"), u, chat, text, m.us[u])
       ELSE IF variant = "part_001" THEN {Routed(m, "idle")}
       ELSE {showMainMenu(Routed(m, "idle"), chat)}

\* handleMessage without the test for waiting_restore_file: a document of the
\* administrator is restored in any state
handleMessage_RestoreInAnyState(m0, u, chat, text, upload) ==
    LET m == saveChatSession(m0, u, chat, HandleOf(u))
    IN IF ~isAllowed(m, u)
       THEN {replyError(Routed(m, "denied"), chat, "err_access_denied")}
       ELSE IF upload # NoUpload /\ u = AdminID
       THEN processRestoreFile(Routed(m, "restore"), chat, u, upload)
       ELSE IF u \in DOMAIN m.us
       THEN handleState(Routed(m, "state"), u, chat, text, m.us[u])
       ELSE IF IsCommand(text)
       THEN handleCommand(Routed(m, "command"), u, chat, Command(text))
       ELSE IF variant = "part_001" THEN {Routed(m, "idle")}
       ELSE {showMainMenu(Routed(m, "idle"), chat)}

\* func handleMessage: upload is NoUpload for a message without a document
handleMessage(m0, u, chat, text, upload) ==
    LET m == saveChatSession(m0, u, chat, HandleOf(u))
    IN IF ~isAllowed(m, u)
       THEN {replyError(Routed(m, "denied"), chat, "err_access_denied")}
       ELSE IF /\ upload # NoUpload
               /\ u = AdminID
               /\ u \in DOMAIN m.us
               /\ m.us[u] = "waiting_restore_file"
       THEN processRestoreFile(Routed(m, "restore"), chat, u, upload)
       ELSE IF u \in DOMAIN m.us
       THEN handleState(Routed(m, "state"), u, chat, text, m.us[u])
       ELSE IF IsCommand(text)
       THEN handleCommand(Routed(m, "command"), u, chat, Command(text))
       ELSE IF variant = "part_001" THEN {Routed(m, "idle")}
       ELSE {showMainMenu(Routed(m, "idle"), chat)}

\* bot.Request(tgbotapi.NewCallback(query.ID, text))
Ack(m, text) == Emit(m, [k |-> "ack", text |-> text])

\* the switch on query.Data of handleCallback
handleToken(m, u, chat, data) ==
    LET admin == u = AdminID
    IN CASE data = "menu_create" -> {startCreateUser(m, chat, u)}
         [] data = "menu_delete" -> showUserSelection(m, chat, 1, "delete")
         [] data = "menu_renew" -> showUserSelection(m, chat, 1, "renew")
         [] data = "menu_list" -> IF admin THEN listUsers(m, chat) ELSE {m}
         [] data = "menu_info" -> IF admin THEN systemInfo(m, chat) ELSE {m}
         [] data = "menu_backup_restore" ->
              IF admin THEN {showBackupRestoreMenu(m, chat)} ELSE {m}
         [] data = "menu_message" -> IF admin THEN {showMessageMenu(m, chat)} ELSE {m}
         [] data = "menu_backup_action" -> IF admin THEN performBackup(m, chat) ELSE {m}
         [] data = "menu_restore_action" -> IF admin THEN {startRestore(m, chat, u)} ELSE {m}
         [] data = "msg_broadcast" ->
              IF admin THEN {startBroadcastMessage(m, chat, u)} ELSE {m}
         [] data = "msg_private" ->
              IF admin THEN startSelectUserForMessage(m, chat, u) ELSE {m}
         [] data = "msg_stats" /\ variant # "part_001" ->
              IF admin THEN {showMessageStats(m, chat)} ELSE {m}
         [] HasPrefix(data, "page_") -> handlePagination(m, chat, data)
         [] ~HasPrefix(data, "page_") /\ HasPrefix(data, "page_msg:") ->   \* after "page_"
              LET a == Atoi(TrimPrefix(data, "page_msg:"))
              IN showUserSelectionForMessage(m, chat, IF a.err THEN 0 ELSE a.val)
         [] HasPrefix(data, "select_renew:") -> {startRenewUser(m, chat, u, data)}
         [] HasPrefix(data, "select_delete:") -> {confirmDeleteUser(m, chat, data)}
         [] HasPrefix(data, "select_user_msg:") ->
              {startPrivateMessage(m, chat, u, TrimPrefix(data, "select_user_msg:"))}
         [] HasPrefix(data, "confirm_delete:") ->
              deleteUser(m, chat, TrimPrefix(data, "confirm_delete:"))
         [] data = "toggle_mode" -> {toggleMode(m, chat, u)}
         [] data = "cancel" -> {cancelOperation(m, chat, u)}
         [] OTHER -> IF variant = "part_001" THEN {m}
                     ELSE {Ack(m, "Aksi tidak dikenal")}

\* func handleCallback.  part_001 records the session after the access
\* check, the other snapshots before it.
handleCallback(m0, u, chat, data) ==
    LET early == variant # "part_001"
        m     == IF early THEN saveChatSession(m0, u, chat, HandleOf(u)) ELSE m0
    IN IF ~isAllowed(m, u) /\ (data # "toggle_mode" \/ u # AdminID)
       THEN {Ack(Routed(m, "denied"), "Akses Ditolak")}
       ELSE LET m1 == IF early THEN m ELSE saveChatSession(m, u, chat, HandleOf(u))
            IN { IF x.crashed THEN x ELSE Ack(x, "") :
                   x \in handleToken(Routed(m1, "callback"), u, chat, data) }

(***************************************************************************)
(* Inbound updates.                                                        *)
(***************************************************************************)
\* AdminID and UserA drive flows; every other participant is a bystander
Drivers == {AdminID, UserA}

LongName == "aaaaaaaaaaaaaaaaaaaaa"

\* message texts: names at and beyond the limits of validateUsername,
\* durations at and beyond the limits of validateNumber, the cancel words the
\* snapshots test for, commands, and free text
FlowTexts ==
    {"ab", "abc", " abc ", "a$c", LongName,
     "1", "0", "+9999", "+10000", "1.5",
     "cancel", "Cancel", "/cancel", "/Cancel", "no cancel yet",
     "/start", "/broadcast", "/message", "/status", "/help", "/foo",
     "hello world"}

IdleTexts == {"hello world", "/start"}

TextsOf(u) == IF u \in Drivers THEN FlowTexts ELSE IdleTexts

\* callback tokens: the buttons of the menus and selection lists, and one
\* token no button carries
FlowTokens ==
    {"menu_create", "menu_delete", "menu_renew", "menu_list", "menu_info",
     "menu_backup_restore", "menu_message", "menu_backup_action",
     "menu_restore_action", "msg_broadcast", "msg_private", "msg_stats",
     "page_delete:2", "page_renew:1", "page_msg:2", "page_delete",
     "select_renew:alice", "select_delete:alice", "select_user_msg:alice",
     "confirm_delete:alice", "toggle_mode", "cancel", "bogus"}

IdleTokens == {"cancel"}

TokensOf(u) == IF u \in Drivers THEN FlowTokens ELSE IdleTokens

\* uploaded documents
Uploads ==
    { Upload(f, <<>>) : f \in DownloadFailures }
    \cup {Upload("", <<"config.json", "evil.sh">>), Upload("", <<"../apikey", "domain">>)}

NoSession == ChatSession(0, 0, "")

\* the chats whose tracked messages are followed, and the number of
\* messages Telegram accepts for each of them
TrackedChats == ChatsOf(UserA)
MaxMessages == 3

\* an update as the main loop receives it, with the state tag ("" for none)
\* and the session (NoSession for none) its sender has at that moment
Event(kind, u, chat, text, upload) ==
    [kind |-> kind, from |-> u, chat |-> chat, text |-> text, upload |-> upload,
     state |-> Lookup(userStates, u),
     session |-> IF u \in DOMAIN activeChats THEN activeChats[u] ELSE NoSession]

NoEvent ==
    [kind |-> "none", from |-> 0, chat |-> 0, text |-> "", upload |-> NoUpload,
     state |-> "", session |-> NoSession]

\* the registries an earlier run of the program can have saved
SavedRegistries ==
    UNION { { [u \in S |-> ChatSession(u, c[u],
                                       IF variant = "part_001" THEN "" ELSE HandleOf(u))] :
                c \in { f \in [S -> UNION { ChatsOf(u) : u \in Users }] :
                          \A u \in S : f[u] \in ChatsOf(u) } } :
            S \in SUBSET Users }

\* chats.json as loadChats finds it at startup: absent, the list an earlier
\* run saved (only part_001 deletes sessions and can save an empty registry),
\* or a list with two entries of one user (loadChats accepts any JSON list
\* of sessions)
PersistedFiles ==
    {NoFile}
    \cup { saveChats([ac |-> r, file |-> NoFile]).file :
             r \in { x \in SavedRegistries : variant = "part_001" \/ x # EmptyMap } }
    \cup { LET handle == IF variant = "part_001" THEN "" ELSE HandleOf(UserA)
           IN FileOf(<<ChatSession(UserA, UserA, handle),
                       ChatSession(UserA, GroupChat, handle)>>) }

Init ==
    /\ variant \in Variants
    /\ mode \in {"public", "private"}
    /\ configFile = mode
    /\ userStates = EmptyMap
    /\ tempUserData = EmptyMap
    /\ chatsFile \in PersistedFiles
    /\ activeChats = loadChats(chatsFile)
    /\ lastSaveTime = LoadedSaveTime(chatsFile)
    /\ call = "none"
    /\ fanout = NoFanout
    /\ lastMessageIDs = EmptyMap
    /\ sentMessages = [chat \in TrackedChats |-> 0]
    /\ deleteRequests = <<>>
    /\ crashed = FALSE
    /\ ev = NoEvent
    /\ route = "none"
    /\ out = <<>>

\* the machine state x becomes the process state
Becomes(x) ==
    /\ mode' = x.mode
    /\ configFile' = x.cfg
    /\ userStates' = x.us
    /\ tempUserData' = x.td
    /\ activeChats' = x.ac
    /\ chatsFile' = x.file
    /\ lastSaveTime' = x.lst
    /\ crashed' = x.crashed
    /\ route' = x.route
    /\ out' = x.out
    /\ variant' = variant
    /\ UNCHANGED trackVars

\* the handler returns: its machine state becomes the process state
Handled(ms, e) ==
    \E x \in ms :
        /\ Becomes(x)
        /\ ev' = e
        /\ call' = "none"
        /\ fanout' = NoFanout

\* a main loop that starts each handler with `go` and takes the next update
\* at once
Waiting_Concurrent == ~crashed

\* main loop: the loop waits in `range updates` and the process is alive
Waiting == ev = NoEvent /\ ~crashed

\* main loop: update.Message != nil, a text message
ReceiveText ==
    /\ Waiting
    /\ \E u \in Users : \E chat \in ChatsOf(u) : \E text \in TextsOf(u) :
         Handled(handleMessage(Machine, u, chat, text, NoUpload),
                 Event("message", u, chat, text, NoUpload))

\* main loop: update.Message != nil, a message that carries a document
ReceiveDocument ==
    /\ Waiting
    /\ \E u \in Drivers : \E chat \in ChatsOf(u) : \E upload \in Uploads :
         Handled(handleMessage(Machine, u, chat, "", upload),
                 Event("message", u, chat, "", upload))

\* main loop: update.CallbackQuery != nil
ReceiveCallback ==
    /\ Waiting
    /\ \E u \in Users : \E chat \in ChatsOf(u) : \E data \in TokensOf(u) :
         Handled(handleCallback(Machine, u, chat, data),
                 Event("callback", u, chat, data, NoUpload))

\* main loop: the handler has returned and the loop takes the next update;
\* ev, route and out describe one update only
NextUpdate ==
    /\ ev # NoEvent
    /\ ~crashed
    /\ call = "none"
    /\ fanout = NoFanout
    /\ ev' = NoEvent
    /\ route' = "none"
    /\ out' = <<>>
    /\ UNCHANGED <<variant, mode, configFile, userStates, tempUserData, activeChats,
                   chatsFile, lastSaveTime, crashed>>
    /\ UNCHANGED <<trackVars, loopVars>>

\* In Spec every update arrives more than 30 seconds after the last save and
\* no broadcast loop takes a minute, so that chats.json follows the registry.
Next == ReceiveText \/ ReceiveDocument \/ ReceiveCallback \/ NextUpdate

Spec == Init /\ [][Next]_vars

(***************************************************************************)
(* The program across restarts.  Updates arrive at any time after the      *)
(* last save, and the process can be stopped between two updates, or       *)
(* after a panic, and started again: main then builds its state anew from  *)
(* the files.                                                              *)
(***************************************************************************)
RestartTexts(u) ==
    IF u = AdminID THEN {"/start", "/broadcast", "/cancel", "hello world"}
    ELSE {"/start", "hello world"}

RestartTokens(u) == IF u = AdminID THEN {"msg_broadcast", "cancel"} ELSE {"cancel"}

Clocks == {"short", "long"}

RestartEvent == [NoEvent EXCEPT !.kind = "restart"]

\* main loop: a text message, at any time after the last save
ReceiveTextTimed ==
    /\ Waiting
    /\ \E clock \in Clocks : \E slow \in BOOLEAN :
       \E u \in Users : \E chat \in ChatsOf(u) : \E text \in RestartTexts(u) :
         Handled(handleMessage(MachineAt(clock, slow), u, chat, text, NoUpload),
                 Event("message", u, chat, text, NoUpload))

\* main loop: a callback query, at any time after the last save
ReceiveCallbackTimed ==
    /\ Waiting
    /\ \E clock \in Clocks : \E slow \in BOOLEAN :
       \E u \in Users : \E chat \in ChatsOf(u) : \E data \in RestartTokens(u) :
         Handled(handleCallback(MachineAt(clock, slow), u, chat, data),
                 Event("callback", u, chat, data, NoUpload))

\* func main, run again: the globals are made anew, loadConfig and loadChats
\* read the files
Restart ==
    /\ ev = NoEvent \/ crashed
    /\ mode' = configFile
    /\ userStates' = EmptyMap
    /\ tempUserData' = EmptyMap
    /\ activeChats' = loadChats(chatsFile)
    /\ lastSaveTime' = LoadedSaveTime(chatsFile)
    /\ crashed' = FALSE
    /\ ev' = RestartEvent
    /\ route' = "none"
    /\ out' = <<>>
    /\ lastMessageIDs' = EmptyMap
    /\ call' = "none"
    /\ fanout' = NoFanout
    /\ UNCHANGED <<variant, configFile, chatsFile, sentMessages, deleteRequests>>

NextRestart == ReceiveTextTimed \/ ReceiveCallbackTimed \/ NextUpdate \/ Restart

SpecRestart == Init /\ [][NextRestart]_vars

(***************************************************************************)
(* The tracked messages.  The handlers call sendAndTrack and               *)
(* deleteLastMessage for one chat or another, in any order; a send can     *)
(* fail; Telegram numbers the messages of a chat 1, 2, 3, ...              *)
(***************************************************************************)
Tracking == [ids |-> lastMessageIDs, req |-> deleteRequests]

\* a handler calls sendAndTrack
SendTracked ==
    \E chat \in TrackedChats : \E ok \in BOOLEAN :
        LET id == IF ok THEN sentMessages[chat] + 1 ELSE 0
            t  == sendAndTrackIDs(Tracking, chat, ok, id)
        IN /\ ok => sentMessages[chat] < MaxMessages
           /\ lastMessageIDs' = t.ids
           /\ deleteRequests' = t.req
           /\ sentMessages' = IF ok THEN [sentMessages EXCEPT ![chat] = id]
                               ELSE sentMessages
           /\ ev' = [NoEvent EXCEPT !.kind = "tracked_send", !.chat = chat]
           /\ out' = <<[k |-> "tracked", to |-> chat, ok |-> ok, id |-> id]>>
           /\ UNCHANGED <<progVars, loopVars>>

\* a handler calls deleteLastMessage (performBackup and the lists that
\* replace the menu)
DeleteLast ==
    \E chat \in TrackedChats :
        LET t == deleteLastMessage(Tracking, chat)
        IN /\ lastMessageIDs' = t.ids
           /\ deleteRequests' = t.req
           /\ ev' = [NoEvent EXCEPT !.kind = "delete_last", !.chat = chat]
           /\ out' = <<>>
           /\ UNCHANGED <<progVars, loopVars, sentMessages>>

NextTrack == SendTracked \/ DeleteLast

SpecTrack == Init /\ [][NextTrack]_vars

(***************************************************************************)
(* The backend call in time.  apiCall blocks in client.Do until the        *)
(* backend answers, the connection fails, or the client's Timeout ends     *)
(* the wait; the handler, and with it the main loop, goes on after that.   *)
(* The program's own steps are taken when they can be; nothing makes the   *)
(* backend answer.                                                         *)
(***************************************************************************)
\* &http.Client{Timeout: 10 * time.Second} in zivpn-bot.go, &http.Client{} in
\* part_001
HasTimeout == variant = "zivpn-bot"

\* buttons whose handler calls the backend
CallTokens == {"menu_list", "menu_delete", "confirm_delete:alice"}

\* the handler of the update ev, which is in progress
HandlerOf(e) == handleCallback(Machine, e.from, e.chat, e.text)

\* main loop: a callback query whose handler gets as far as client.Do; the
\* backend has accepted the request
SendRequest ==
    /\ Waiting
    /\ \E u \in Users : \E chat \in ChatsOf(u) : \E data \in CallTokens :
         LET e == Event("callback", u, chat, data, NoUpload)
         IN /\ \E x \in HandlerOf(e) : \E i \in 1..Len(x.out) : x.out[i].k = "api"
            /\ ev' = e
    /\ call' = "sent"
    /\ UNCHANGED <<progVars, trackVars, fanout, out>>

\* client.Do returns with what the backend sent, or with the error of a
\* broken connection, and the handler runs to its end
BackendResponds ==
    /\ call = "sent"
    /\ Handled(HandlerOf(ev), ev)

\* client.Do returns with the error of the Timeout, and the handler runs to
\* its end
ClientTimeout ==
    /\ call = "sent"
    /\ HasTimeout
    /\ Handled({ x \in HandlerOf(ev) :
                   \A i \in 1..Len(x.out) : x.out[i].k = "api" => x.out[i].reply = "down" },
               ev)

NextGateway == SendRequest \/ BackendResponds \/ ClientTimeout \/ NextUpdate

SpecGateway ==
    /\ Init
    /\ [][NextGateway]_vars
    /\ WF_vars(ClientTimeout)
    /\ WF_vars(NextUpdate)

(***************************************************************************)
(* The broadcast loop step by step.  sendBroadcastMessage sends to one     *)
(* session after the other, with a pause after each; the main loop is in   *)
(* the call of the handler all the while.                                  *)
(***************************************************************************)
\* texts that no snapshot takes for a cancel
BroadcastTexts == {"hello world", "1"}

\* the machine in the middle of a handler: what it has sent so far stays
Running == [MachineAt("short", FALSE) EXCEPT !.out = out, !.route = route]

\* the loop variables of sendBroadcastMessage
LoopState == [m |-> Running, sent |-> fanout.sent, failed |-> fanout.failed]

\* main loop -> handleMessage -> handleState -> sendBroadcastMessage, up to
\* the first iteration of the loop
BeginBroadcast ==
    /\ Waiting
    /\ Lookup(userStates, AdminID) = "broadcast_message"
    /\ \E chat \in ChatsOf(AdminID) : \E text \in BroadcastTexts :
         LET m0 == saveChatSession(MachineAt("short", FALSE), AdminID, chat,
                                   HandleOf(AdminID))
             m1 == Send(Routed(m0, "state"), chat, "broadcast_status")
         IN /\ ~IsBroadcastCancel(TrimSpace(text))
            /\ Becomes(m1)
            /\ fanout' = [todo |-> Ascending(DOMAIN m1.ac), message |-> TrimSpace(text),
                          sent |-> 0, failed |-> 0]
            /\ ev' = Event("message", AdminID, chat, text, NoUpload)
            /\ UNCHANGED call

\* one iteration of the loop: the session is skipped, reached, or not
\* reached and (in part_001) deleted
DeliverNext ==
    /\ fanout # NoFanout
    /\ Len(fanout.todo) > 0
    /\ \E ok \in BOOLEAN :
         LET u   == Head(fanout.todo)
             acc == BroadcastOne(LoopState, u, fanout.message, IF ok THEN {} ELSE {u})
         IN /\ Becomes(acc.m)
            /\ fanout' = [fanout EXCEPT !.todo = Tail(@), !.sent = acc.sent,
                                         !.failed = acc.failed]
    /\ UNCHANGED <<ev, call>>

\* after the loop: the save, the report, the menu, and resetState of
\* handleState
EndBroadcast ==
    /\ fanout # NoFanout
    /\ Len(fanout.todo) = 0
    /\ Handled(ResetUnlessCrashed(
                 {showMainMenu(BroadcastReport(BroadcastSave(LoopState), ev.chat), ev.chat)},
                 ev.from),
               ev)

NextDispatch ==
    \/ ReceiveTextTimed
    \/ ReceiveCallbackTimed
    \/ BeginBroadcast
    \/ DeliverNext
    \/ EndBroadcast
    \/ NextUpdate

SpecDispatch == Init /\ [][NextDispatch]_vars

(***************************************************************************)
(* Properties.                                                             *)
(***************************************************************************)
\* the update handled by this step is a message of a sender the access
\* check lets through
AllowedMessageStep ==
    /\ ev = NoEvent
    /\ ev'.kind = "message"
    /\ (mode = "public" \/ ev'.from = AdminID)

\* some output of the last update has kind k
Sent(o, kind) == \E i \in 1..Len(o) : o[i].k = kind

\* a message with this tag went to this chat
SentMessage(o, chat, tag) ==
    \E i \in 1..Len(o) : o[i].k = "msg" /\ o[i].to = chat /\ o[i].tag = tag

\* a name as the specification accepts it: 3 to 20 characters of [A-Za-z0-9_-]
AcceptableName(text) ==
    LET t == TrimSpace(text)
    IN /\ Len(t) >= 3
       /\ Len(t) <= 20
       /\ \A i \in 1..Len(t) :
            \/ InChars(Char(t, i), LowerChars)
            \/ InChars(Char(t, i), UpperChars)
            \/ InChars(Char(t, i), DigitChars)
            \/ Char(t, i) \in {"_", "-"}

\* C1: in the create flow a text whose trimmed form is no acceptable name,
\* handled while the sender's state is create_username, leaves the state at
\* create_username and the scratch data as they are, sends a re-prompt and
\* calls no backend; this holds at every such step, so for any number of
\* invalid inputs in a row.
C1_InvalidNameStaysAtAwaitName ==
    [][(/\ AllowedMessageStep
        /\ ev'.state = "create_username"
        /\ ~AcceptableName(ev'.text))
       => (/\ userStates' = userStates
           /\ userStates'[ev'.from] = "create_username"
           /\ tempUserData' = tempUserData
           /\ \/ SentMessage(out', ev'.chat, "err_name_length")
              \/ SentMessage(out', ev'.chat, "err_name_charset")
           /\ ~Sent(out', "api")
           /\ ~crashed')]_vars

\* C1 witness: a name of 21 characters sent at create_username was answered
\* with the length re-prompt and the sender is still at create_username.
C1_Witness ==
    /\ ev.kind = "message"
    /\ ev.state = "create_username"
    /\ ev.text = LongName
    /\ SentMessage(out, ev.chat, "err_name_length")
    /\ ev.from \in DOMAIN userStates
    /\ userStates[ev.from] = "create_username"
    /\ ev.from = UserA

\* a duration as the specification accepts it: an integer from 1 to 9999
AcceptableDays(text) ==
    LET a == Atoi(TrimSpace(text))
    IN ~a.err /\ a.val >= 1 /\ a.val <= 9999

\* C2: at create_days and at renew_days a text that is no integer, or an
\* integer outside 1..9999, leaves the state and the scratch data as they are,
\* is answered with a re-prompt, and issues no backend call.
C2_InvalidDaysStaysAtAwaitDays ==
    [][(/\ AllowedMessageStep
        /\ ev'.state \in {"create_days", "renew_days"}
        /\ ~AcceptableDays(ev'.text))
       => (/\ userStates' = userStates
           /\ userStates'[ev'.from] = ev'.state
           /\ tempUserData' = tempUserData
           /\ SentMessage(out', ev'.chat, "err_number")
           /\ ~Sent(out', "api")
           /\ ~crashed')]_vars

\* C2 witness: a duration of 0 sent at renew_days was answered with the
\* re-prompt, no backend call was made and the sender is still at renew_days.
C2_Witness ==
    /\ ev.kind = "message"
    /\ ev.state = "renew_days"
    /\ ev.text = "0"
    /\ SentMessage(out, ev.chat, "err_number")
    /\ ~Sent(out, "api")
    /\ ev.from \in DOMAIN userStates
    /\ userStates[ev.from] = "renew_days"

\* the states of the flows
FlowStates ==
    {"create_username", "create_days", "renew_days", "broadcast_message",
     "private_message", "waiting_restore_file"}

\* a text that is the cancellation keyword, whatever its case
CancelKeyword(text) == ToLower(TrimSpace(text)) \in {"cancel", "/cancel"}

\* the update handled by this step is a press of the cancel button by a
\* sender the access check lets through
AllowedCancelPress ==
    /\ ev = NoEvent
    /\ ev'.kind = "callback"
    /\ ev'.text = "cancel"
    /\ (mode = "public" \/ ev'.from = AdminID)

\* the sender of the update of this step has neither state nor scratch data
\* after it
SenderIdleAfter ==
    /\ ev'.from \notin DOMAIN userStates'
    /\ ev'.from \notin DOMAIN tempUserData'

\* C3 as stated: cancelling at any step of any flow, by the cancellation
\* keyword sent as text or by the cancel button, removes the sender's state
\* and scratch data.
C3_CancelByKeywordOrButton ==
    [][(/\ ev'.state \in FlowStates
        /\ \/ AllowedCancelPress
           \/ AllowedMessageStep /\ CancelKeyword(ev'.text))
       => SenderIdleAfter]_vars

\* C3 amended: a press of the cancel button at any step of any flow removes
\* the sender's state and scratch data and shows the menu; at the text steps of
\* the broadcast and private-message flows any text, the cancellation keyword
\* included, ends the flow in the same way; and a text that is no command, sent
\* by a user without a state, is routed as idle input and starts nothing.
C3_CancelButtonEndsFlow ==
    [][/\ (AllowedCancelPress /\ ev'.state \in FlowStates)
            => (SenderIdleAfter /\ Sent(out', "menu") /\ ~Sent(out', "api"))
       /\ (AllowedMessageStep /\ ev'.state \in {"broadcast_message", "private_message"})
            => SenderIdleAfter
       /\ (AllowedMessageStep /\ ev'.state = "" /\ ~IsCommand(ev'.text))
            => (/\ route' = "idle"
                /\ userStates' = userStates
                /\ tempUserData' = tempUserData)]_vars

\* C3 witness: the cancel button was pressed at create_days, where a name is
\* already in the scratch data, and the sender has no state and no scratch
\* data left.
C3_Witness ==
    /\ ev.kind = "callback"
    /\ ev.text = "cancel"
    /\ ev.state = "create_days"
    /\ route = "callback"
    /\ Sent(out, "menu")
    /\ ev.from \notin DOMAIN userStates
    /\ ev.from \notin DOMAIN tempUserData

\* C4: when the administrator is at broadcast_message and sends a text that
\* equals "cancel" whatever its case, the administrator's state is removed, the
\* menu is shown and no delivery is attempted.
C4_CancelTextStopsBroadcast ==
    (/\ ev.kind = "message"
     /\ ev.from = AdminID
     /\ ev.state = "broadcast_message"
     /\ ToLower(TrimSpace(ev.text)) = "cancel")
    => (/\ AdminID \notin DOMAIN userStates
        /\ Sent(out, "menu")
        /\ ~Sent(out, "deliver"))

\* the positions in o of the delivery attempts of a broadcast
Attempts(o) == { i \in 1..Len(o) : o[i].k = "deliver" /\ o[i].kind = "broadcast" }

\* the recipients whose delivery attempt failed
FailedRecipients(o) == { o[i].uid : i \in { j \in Attempts(o) : ~o[j].ok } }

\* the report of the broadcast
Report(o) == o[CHOOSE i \in 1..Len(o) : o[i].k = "report"]

\* the update handled by this step ran a broadcast to its end
BroadcastStep == ev = NoEvent /\ Sent(out', "report")

\* the registry the broadcast starts from: the one before the update, with
\* the session of the sender, which is recorded when the update arrives
RegistryAtBroadcast == DOMAIN activeChats \cup {ev'.from}

\* C5: a broadcast over a registry of N sessions that holds the
\* administrator's attempts one delivery to each of the N-1 other sessions, at
\* the chat of that session, and none to the administrator; a failed delivery
\* does not stop it; with K failed attempts the report says sent = N-1-K and
\* failed = K.
C5_BroadcastAttemptsEveryRecipient ==
    [][(BroadcastStep /\ AdminID \in RegistryAtBroadcast)
       => LET N == Cardinality(RegistryAtBroadcast)
              K == Cardinality(FailedRecipients(out'))
              registryThen == IF ev'.from \in DOMAIN activeChats
                              THEN activeChats
                              ELSE Put(activeChats, ev'.from,
                                       ChatSession(ev'.from, ev'.chat, ""))
          IN /\ \A u \in RegistryAtBroadcast \ {AdminID} :
                  /\ Cardinality({ i \in Attempts(out') : out'[i].uid = u }) = 1
                  /\ \A i \in Attempts(out') :
                       out'[i].uid = u => out'[i].to = registryThen[u].ChatID
             /\ \A i \in Attempts(out') :
                  out'[i].uid \in RegistryAtBroadcast \ {AdminID}
             /\ Cardinality(Attempts(out')) = N - 1
             /\ Report(out').failed = K
             /\ Report(out').sent = N - 1 - K
             /\ Report(out').to = ev'.chat]_vars

\* C5 witness: a broadcast with one delivered and one failed attempt has been
\* reported.
C5_Witness ==
    /\ ev.kind = "message"
    /\ ev.state = "broadcast_message"
    /\ Sent(out, "report")
    /\ Report(out).sent = 1
    /\ Report(out).failed = 1
    /\ Cardinality(Attempts(out)) = 2

\* C6: the total of the broadcast report is the number of recipients the
\* broadcast attempted, however many of the attempts failed.
C6_ReportTotalIsAttempted ==
    Sent(out, "report") => Report(out).total = Cardinality(Attempts(out))

\* C7: after a broadcast the registry is the registry it started from without
\* the recipients whose attempt failed, and without nobody else.
C7_FailedRecipientsRemoved ==
    [][BroadcastStep
       => DOMAIN activeChats' = RegistryAtBroadcast \ FailedRecipients(out')]_vars

\* C8: recording a session is idempotent.  Recording the same (user, chat,
\* handle) twice or three times leaves the registry as recording it once does,
\* and an update from a user whose session is already recorded with that chat
\* adds no user to the registry and leaves that session as it is.
C8_UpsertIdempotent ==
    [][/\ \A u \in Users : \A chat \in ChatsOf(u) :
            LET once   == saveChatSession(Machine, u, chat, HandleOf(u))
                twice  == saveChatSession(once, u, chat, HandleOf(u))
                thrice == saveChatSession(twice, u, chat, HandleOf(u))
            IN /\ twice.ac = once.ac
               /\ thrice.ac = once.ac
               /\ DOMAIN once.ac = DOMAIN activeChats \cup {u}
       /\ (/\ ev = NoEvent
           /\ ev' # NoEvent
           /\ ev'.session.UserID = ev'.from
           /\ ev'.session.ChatID = ev'.chat)
          => (/\ DOMAIN activeChats' \subseteq DOMAIN activeChats
              /\ Cardinality(DOMAIN activeChats') <= Cardinality(DOMAIN activeChats)
              /\ ev'.from \in DOMAIN activeChats'
                   => activeChats'[ev'.from] = activeChats[ev'.from])]_vars

\* C8 witness: a message of a user whose session was already recorded with
\* the same chat has been handled, and the registry holds that session as
\* before, among the sessions of other users.
C8_Witness ==
    /\ ev.kind = "message"
    /\ ev.session.UserID = ev.from
    /\ ev.session.ChatID = ev.chat
    /\ ev.from \in DOMAIN activeChats
    /\ activeChats[ev.from] = ev.session
    /\ Cardinality(DOMAIN activeChats) = 2

\* C9: a command sent by a user who is not the administrator while the mode is
\* private is answered with the access-denied notice and nothing else, leaves
\* every conversation state and all scratch data as they are, and the sender's
\* session is in the registry afterwards.
C9_DeniedCommandIsRecorded ==
    [][(/\ ev = NoEvent
        /\ ev'.kind = "message"
        /\ IsCommand(ev'.text)
        /\ ev'.from # AdminID
        /\ mode = "private")
       => (/\ SentMessage(out', ev'.chat, "err_access_denied")
           /\ Len(out') = 1
           /\ userStates' = userStates
           /\ tempUserData' = tempUserData
           /\ ev'.from \in DOMAIN activeChats'
           /\ activeChats'[ev'.from].UserID = ev'.from
           /\ mode' = "private")]_vars

\* C9 witness: in private mode /start of a user who had no session was
\* answered with the access-denied notice; the user has no state and is in the
\* registry.
C9_Witness ==
    /\ ev.kind = "message"
    /\ ev.text = "/start"
    /\ ev.from = UserA
    /\ ev.session = NoSession
    /\ mode = "private"
    /\ SentMessage(out, ev.chat, "err_access_denied")
    /\ ev.from \notin DOMAIN userStates
    /\ ev.from \in DOMAIN activeChats

\* C10: the session of the sender is recorded on every update, message or
\* button press, before the access check, so a sender the access check rejects
\* is in the registry after the update.
C10_RejectedSenderIsRecorded ==
    (/\ ev.kind \in {"message", "callback"}
     /\ mode = "private"
     /\ ev.from # AdminID)
    => ev.from \in DOMAIN activeChats

\* the names the specification lets a restore write
AllowList == {"config.json", "users.json", "bot-config.json", "domain", "apikey", "api_port"}

\* path names a file directly in the configuration directory
DirectChild(path) ==
    LET rest == TrimPrefix(path, "/etc/zivpn/")
    IN /\ HasPrefix(path, "/etc/zivpn/")
       /\ Len(rest) > 0
       /\ ~Contains(rest, "/")
       /\ rest \notin {".", ".."}

\* C11: every file a restore writes is the file of an entry of the uploaded
\* archive whose name is in the allow-list, under that name directly in the
\* configuration directory; an entry with another name is written nowhere.
C11_RestoreWritesOnlyAllowListed ==
    \A i \in 1..Len(out) :
        out[i].k = "write"
        => /\ DirectChild(out[i].path)
           /\ \E j \in 1..Len(ev.upload.entries) :
                /\ ev.upload.entries[j] \in AllowList
                /\ out[i].path = "/etc/zivpn/" \o ev.upload.entries[j]

\* C11 witness: an archive with config.json and evil.sh was restored and
\* config.json is the one file written.
C11_Witness ==
    /\ ev.kind = "message"
    /\ ev.state = "waiting_restore_file"
    /\ ev.upload.entries = <<"config.json", "evil.sh">>
    /\ Sent(out, "restart")
    /\ Cardinality({ i \in 1..Len(out) : out[i].k = "write" }) = 1
    /\ \E i \in 1..Len(out) : out[i].k = "write" /\ out[i].path = "/etc/zivpn/config.json"

\* some output of the last update carries this tag
Tagged(o, tag) ==
    \E i \in 1..Len(o) : o[i].k \in {"send", "msg", "submenu"} /\ o[i].tag = tag

\* the last update was a message of a sender the access check lets through
\* (a message changes no mode, so the mode is the one the check saw)
AllowedMessage ==
    /\ ev.kind = "message"
    /\ (mode = "public" \/ ev.from = AdminID)

\* what the command handlers send: the welcome, the prompt of a started
\* broadcast, the recipient selection, the message menu, the status, the help,
\* the notice for an unknown command
CommandHandlerRan ==
    \/ \E t \in {"welcome", "prompt_broadcast", "message", "status", "help",
                 "err_unknown_command"} : Tagged(out, t)
    \/ Sent(out, "select")

\* C12: a text message of an allowed user who has a conversation state is
\* handed to the step of that state, also when the text is a command such as
\* /start or /broadcast; no command handler runs for it.
C12_StateBeforeCommands ==
    (AllowedMessage /\ ev.state # "" /\ ev.upload = NoUpload)
    => (route = "state" /\ ~CommandHandlerRan)

\* C12 witness: /broadcast sent by the administrator at create_username was
\* taken as a name and answered with the charset re-prompt.
C12_Witness ==
    /\ AllowedMessage
    /\ ev.from = AdminID
    /\ ev.state = "create_username"
    /\ ev.text = "/broadcast"
    /\ route = "state"
    /\ SentMessage(out, ev.chat, "err_name_charset")
    /\ userStates[ev.from] = "create_username"

\* restore processing ran for the last update: its progress message went out
RestoreRan == Tagged(out, "restore_progress")

\* C13: restore processing runs for a message exactly when the message
\* carries a document, its sender is the administrator and the sender's state
\* is waiting_restore_file; a document in another state or of another user,
\* and a button press, start none.
C13_RestoreOnlyForAwaitedUpload ==
    /\ ev.kind = "message"
         => (RestoreRan <=> (/\ ev.upload # NoUpload
                             /\ ev.state = "waiting_restore_file"
                             /\ ev.from = AdminID))
    /\ ev.kind # "message" => ~RestoreRan
    /\ RestoreRan <=> route = "restore"
    /\ (Sent(out, "write") \/ Sent(out, "restart")) => RestoreRan

\* C13 witness: a document of the administrator at create_username was
\* handled by the state step, not restored.
C13_Witness ==
    /\ ev.kind = "message"
    /\ ev.from = AdminID
    /\ ev.upload # NoUpload
    /\ ev.upload.fail = ""
    /\ ev.state = "create_username"
    /\ route = "state"
    /\ ~RestoreRan

\* C14: a message that is no command, sent by an allowed user who has no
\* conversation state, is answered with the main menu.
C14_IdleTextShowsMenu ==
    (AllowedMessage /\ ev.state = "" /\ ~IsCommand(ev.text) /\ ev.upload = NoUpload)
    => \E i \in 1..Len(out) : out[i].k = "menu" /\ out[i].to = ev.chat

\* the positions in o of the acknowledgements of a button press
Acks(o) == { i \in 1..Len(o) : o[i].k = "ack" }

\* C15: a button press whose handler returns is acknowledged exactly once,
\* and the acknowledgement is the last thing the handler does.
C15_AcknowledgedOnce ==
    (ev.kind = "callback" /\ ~crashed)
    => (Cardinality(Acks(out)) = 1 /\ out[Len(out)].k = "ack")

\* the tokens the router knows by exact match and by prefix
ExactTokens ==
    {"menu_create", "menu_delete", "menu_renew", "menu_list", "menu_info",
     "menu_backup_restore", "menu_message", "menu_backup_action", "menu_restore_action",
     "msg_broadcast", "msg_private", "msg_stats", "toggle_mode", "cancel"}

TokenPrefixes ==
    {"page_", "page_msg:", "select_renew:", "select_delete:", "select_user_msg:",
     "confirm_delete:"}

Unrecognized(data) ==
    data \notin ExactTokens /\ \A p \in TokenPrefixes : ~HasPrefix(data, p)

\* C16: a button press of an allowed user whose token matches no exact token
\* and no prefix is answered with the unrecognized-action notice and leaves
\* the sender's conversation state as it was.
C16_UnrecognizedTokenNotice ==
    (/\ ev.kind = "callback"
     /\ (mode = "public" \/ ev.from = AdminID)
     /\ Unrecognized(ev.text))
    => (/\ \E i \in Acks(out) : out[i].text = "Aksi tidak dikenal"
        /\ Lookup(userStates, ev.from) = ev.state)

\* the update handled by this step is a press of the toggle_mode button
TogglePress ==
    /\ ev = NoEvent
    /\ ev'.kind = "callback"
    /\ ev'.text = "toggle_mode"

\* the mode a toggle turns the current one into
Flipped == IF mode = "public" THEN "private" ELSE "public"

\* the only answer to the update of this step is the access-denied
\* acknowledgement
DeniedAck == out' = <<[k |-> "ack", text |-> "Akses Ditolak"]>>

\* C17: in every state and in either mode a press of toggle_mode by the
\* administrator passes the access check and flips the mode, so from private
\* the administrator always gets back to public; a press of toggle_mode by
\* another user while the mode is private is answered with the access-denied
\* acknowledgement alone and leaves the mode private.
C17_AdminCanAlwaysToggle ==
    [][/\ (TogglePress /\ ev'.from = AdminID)
            => (/\ mode' = Flipped
                /\ mode = "private" => mode' = "public"
                /\ ~DeniedAck
                /\ route' = "callback"
                /\ Cardinality(Acks(out')) = 1)
       /\ (TogglePress /\ ev'.from # AdminID /\ mode = "private")
            => (DeniedAck /\ mode' = "private")]_vars

\* C17 witness: the administrator, in the middle of a create flow, pressed
\* toggle_mode in private mode and the mode is public again.
C17_Witness ==
    /\ ev.kind = "callback"
    /\ ev.text = "toggle_mode"
    /\ ev.from = AdminID
    /\ ev.state = "create_days"
    /\ Tagged(out, "mode_public")
    /\ mode = "public"

AccountCalls(o) ==
    { i \in 1..Len(o) : o[i].k = "api" /\ o[i].ep \in {"/user/create", "/user/renew"} }

\* the replies with which such a call fails: no connection, a body that is
\* no JSON, an envelope with success = false
FailedReplies == {"down", "garbage", "fail"}

\* the create or renew call of the last update failed
AccountCallFailed == \E i \in AccountCalls(out) : out[i].reply \in FailedReplies

\* C19: a create or renew call is made only by a message handled at
\* create_days or renew_days, once; when it fails, by a transport error or by
\* success = false, the sender has neither state nor scratch data afterwards,
\* so nothing repeats the call until a new flow is started.
C19_FailedCallClearsFlow ==
    /\ AccountCalls(out) # {}
         => (/\ ev.kind = "message"
             /\ ev.state \in {"create_days", "renew_days"}
             /\ Cardinality(AccountCalls(out)) = 1)
    /\ AccountCallFailed
         => (/\ ev.from \notin DOMAIN userStates
             /\ ev.from \notin DOMAIN tempUserData
             /\ ~crashed)

\* C19 witness: the renew call of a user at renew_days got success = false
\* and the user has no state and no scratch data.
C19_Witness ==
    /\ ev.kind = "message"
    /\ ev.state = "renew_days"
    /\ \E i \in AccountCalls(out) : out[i].reply = "fail" /\ out[i].ep = "/user/renew"
    /\ SentMessage(out, ev.chat, "err_backend")
    /\ ev.from \notin DOMAIN userStates
    /\ ev.from \notin DOMAIN tempUserData

\* C20: when the create or renew call fails, by a transport error or by
\* success = false, the initiator gets the error message and, in the same
\* handler, the main menu.
C20_FailedCallShowsMenu ==
    AccountCallFailed
    => (/\ SentMessage(out, ev.chat, "err_api") \/ SentMessage(out, ev.chat, "err_backend")
        /\ \E i \in 1..Len(out) : out[i].k = "menu" /\ out[i].to = ev.chat)

\* the positions in o of the backend calls
Calls(o) == { i \in 1..Len(o) : o[i].k = "api" }

\* C21: a backend call returns an error for every transport failure and for
\* every body that is no JSON, and an envelope without error only for a body
\* that was parsed; a body that is no JSON is never shown to the user as a
\* failure the backend reported.
C21_ParseFailureIsLocalError ==
    \A i \in Calls(out) :
        LET res == apiCall(out[i].reply)
        IN /\ out[i].reply \in {"down", "garbage"} => res.err
           /\ ~res.err => out[i].reply \in {"fail", "ok", "ok_nodata"}
           /\ out[i].reply = "garbage" => ~Tagged(out, "err_backend")

\* C22: no update and no backend reply ends the process: the dispatch loop
\* is alive after every update.
C22_NoUpdateEndsTheProcess == ~crashed

\* the positions of the entries of user u in chats.json
EntriesOf(u) ==
    { i \in 1..Len(chatsFile.sessions) : chatsFile.sessions[i].UserID = u }

\* the user ids listed in chats.json
ListedUsers == { chatsFile.sessions[i].UserID : i \in 1..Len(chatsFile.sessions) }

\* C23: the registry holds one session for a user id, and the session under
\* key u has UserID u; after a start of the program the registry has a
\* session for exactly the user ids listed in the persisted list, and for a
\* user id listed several times it is the later entry.
C23_OneSessionPerUserLaterEntryKept ==
    /\ \A u \in DOMAIN activeChats : activeChats[u].UserID = u
    /\ ev.kind = "restart" =>
         /\ DOMAIN activeChats = ListedUsers
         /\ \A u \in ListedUsers :
              \A i \in EntriesOf(u) :
                  (\A j \in EntriesOf(u) : j <= i) => activeChats[u] = chatsFile.sessions[i]

\* the program has started from a list with two different entries of one
\* user, and the registry has the second
C23_Witness ==
    /\ ev.kind = "restart"
    /\ \E u \in ListedUsers : \E i, j \in EntriesOf(u) :
         /\ i < j
         /\ chatsFile.sessions[i] # chatsFile.sessions[j]
         /\ activeChats[u] = chatsFile.sessions[j]

\* C24: every user in the registry when the program stops is in the registry
\* after the restart, and the states and the scratch data are empty after it.
C24_RecordedUsersSurviveRestart ==
    [][ev'.kind = "restart" =>
          /\ DOMAIN activeChats \subseteq DOMAIN activeChats'
          /\ userStates' = EmptyMap
          /\ tempUserData' = EmptyMap]_vars

\* this step handles a message without a document that the administrator
\* sends while their state is waiting_restore_file
TextWhileAwaitingFile ==
    /\ ev = NoEvent
    /\ ev'.kind = "message"
    /\ ev'.from = AdminID
    /\ ev'.upload = NoUpload
    /\ Lookup(userStates, AdminID) = "waiting_restore_file"

\* C25: while the administrator's state is waiting_restore_file, a message
\* without a document, whatever its text (a command and the cancel keyword
\* included), leaves the states, the scratch data and the configuration
\* files as they are and starts no restore.
C25_TextWhileAwaitingFileIsIgnored ==
    [][TextWhileAwaitingFile =>
          /\ userStates' = userStates
          /\ tempUserData' = tempUserData
          /\ configFile' = configFile
          /\ mode' = mode
          /\ ~Sent(out', "write")
          /\ ~Sent(out', "restart")
          /\ ~Tagged(out', "restore_progress")
          /\ route' # "restore"]_vars

\* the administrator has sent a command while waiting for the file and is
\* still waiting for it
C25_Witness ==
    /\ ev.kind = "message"
    /\ ev.from = AdminID
    /\ ev.upload = NoUpload
    /\ ev.state = "waiting_restore_file"
    /\ ev.text = "/broadcast"
    /\ Lookup(userStates, AdminID) = "waiting_restore_file"

\* C26: every message sent through sendMessage to the chat of a user who has
\* a state when the handler returns (a prompt or a re-prompt of the flow)
\* carries the cancel button, also when the chat id is not the user id.
C26_PromptsCarryCancelButton ==
    ev.kind \in {"message", "callback"} /\ ev.from \in DOMAIN userStates =>
        \A i \in 1..Len(out) :
            out[i].k = "msg" /\ out[i].to = ev.chat => out[i].cancel

\* the state tag and the scratch data of user u in the maps us and td
FlowOf(us, td, u) ==
    [state |-> Lookup(us, u), has |-> u \in DOMAIN td,
     data |-> IF u \in DOMAIN td THEN td[u] ELSE EmptyMap]

\* C27: the handling of an update of one user leaves the state and the
\* scratch data of every other user as they are.
C27_OtherUsersFlowUntouched ==
    [][ev = NoEvent /\ ev'.kind \in {"message", "callback"} =>
          \A b \in Users \ {ev'.from} :
              FlowOf(userStates', tempUserData', b) = FlowOf(userStates, tempUserData, b)]_vars

\* the sessions of the registry ac that belong to the participant named
\* target
SessionsOf(ac, target) == { u \in DOMAIN ac : ac[u].Username = target }

\* C28: the text entered in the private-message flow is delivered only to
\* the sessions of the participant selected as target, and to no other
\* session of the registry.
C28_PrivateMessageToTargetOnly ==
    [][ev = NoEvent /\ ev'.kind = "message" =>
          \A i \in 1..Len(out') :
              out'[i].k = "deliver" /\ out'[i].kind = "private" =>
                  out'[i].uid \in SessionsOf(activeChats',
                                             Field(tempUserData, ev'.from, "target_user"))]_vars

\* C29: at broadcast_message a text that is not the cancel keyword, whatever
\* its case, starts the broadcast: the loop runs to its report, and what it
\* delivers is the whole text; a text that has the word cancel inside a
\* longer message is such a text.
C29_OnlyTheKeywordCancelsBroadcast ==
    (/\ ev.kind = "message"
     /\ ev.state = "broadcast_message"
     /\ ~CancelKeyword(ev.text))
    => (/\ Sent(out, "report")
        /\ \A i \in Attempts(out) : out[i].text = TrimSpace(ev.text))

\* C30: when a message of a user has been handled, the session the registry
\* has for that user is the chat the message came from (with the sender's
\* handle, where the snapshot records one), also when the user had a session
\* with another chat before.
C30_UpsertOverwritesChannel ==
    ev.kind = "message" /\ ev.from \in DOMAIN activeChats =>
        activeChats[ev.from] =
            ChatSession(ev.from, ev.chat,
                        IF variant = "part_001" THEN "" ELSE HandleOf(ev.from))

\* this step handles an update of a user other than the administrator while
\* the mode is private
DeniedStep ==
    /\ ev = NoEvent
    /\ ev'.kind \in {"message", "callback"}
    /\ ev'.from # AdminID
    /\ mode = "private"

\* C31: in private mode an update of a user other than the administrator (a
\* text, a command, an upload, a button press) leaves the states and the
\* scratch data of all users as they are and causes no backend call, no
\* restore and no delivery, also when that user has a flow in progress.
C31_PrivateModeFreezesOthers ==
    [][DeniedStep =>
          /\ userStates' = userStates
          /\ tempUserData' = tempUserData
          /\ ~Sent(out', "api")
          /\ ~Sent(out', "deliver")
          /\ ~Sent(out', "write")
          /\ ~Tagged(out', "restore_progress")
          /\ route' # "restore"]_vars

\* a user who began a flow in public mode has sent a text in private mode and
\* is still at the same step
C31_Witness ==
    /\ mode = "private"
    /\ ev.kind = "message"
    /\ ev.from = UserA
    /\ ev.state = "create_username"
    /\ ev.text = "abc"
    /\ Lookup(userStates, UserA) = "create_username"

\* the state tags at which the next valid text makes the account call, and
\* the endpoint each of them calls
DaysStates == {"create_days", "renew_days"}
EndpointOf(state) == IF state = "create_days" THEN "/user/create" ELSE "/user/renew"

\* the account name collected for user u
CollectedName(td, u) == Field(td, u, "username")

\* this step handles an update of a sender the access check lets through
AllowedStep ==
    /\ ev = NoEvent
    /\ ev'.kind \in {"message", "callback"}
    /\ (mode = "public" \/ ev'.from = AdminID)

\* C32: the create and renew flows end in one backend call with the values
\* the flow collected.  A valid name at create_username is stored and leads
\* to create_days, and nothing else leads there; a press of
\* select_renew:<name> stores <name> and leads to renew_days; while a user
\* stays at create_days or renew_days the stored name stays; a create or
\* renew call is made only by a valid duration sent at create_days or
\* renew_days, once, to the endpoint of that state, with the stored name and
\* that duration, and the sender has no state afterwards.
C32_TerminalCallCarriesCollectedValues ==
    [][AllowedStep =>
         LET u == ev'.from
         IN /\ (ev'.kind = "message" /\ ev'.state = "create_username"
                                     /\ AcceptableName(ev'.text))
                 => (/\ Lookup(userStates', u) = "create_days"
                     /\ CollectedName(tempUserData', u) = TrimSpace(ev'.text))
            /\ \A v \in Users :
                 (Lookup(userStates', v) = "create_days"
                    /\ Lookup(userStates, v) # "create_days")
                 => (/\ v = u
                     /\ ev'.kind = "message"
                     /\ ev'.state = "create_username"
                     /\ AcceptableName(ev'.text))
            /\ (ev'.kind = "callback" /\ HasPrefix(ev'.text, "select_renew:"))
                 => (/\ Lookup(userStates', u) = "renew_days"
                     /\ CollectedName(tempUserData', u)
                          = TrimPrefix(ev'.text, "select_renew:"))
            /\ \A v \in Users :
                 (/\ Lookup(userStates, v) \in DaysStates
                  /\ Lookup(userStates', v) = Lookup(userStates, v)
                  /\ ~(v = u /\ ev'.kind = "callback"))
                 => CollectedName(tempUserData', v) = CollectedName(tempUserData, v)
            /\ AccountCalls(out') # {}
                 => (/\ Cardinality(AccountCalls(out')) = 1
                     /\ ev'.kind = "message"
                     /\ ev'.state \in DaysStates
                     /\ AcceptableDays(ev'.text)
                     /\ \A i \in AccountCalls(out') :
                          /\ out'[i].ep = EndpointOf(ev'.state)
                          /\ out'[i].password = CollectedName(tempUserData, u)
                          /\ out'[i].days = Atoi(TrimSpace(ev'.text)).val
                     /\ (crashed' \/ u \notin DOMAIN userStates'))
            /\ (ev'.kind = "message" /\ ev'.state \in DaysStates
                                     /\ AcceptableDays(ev'.text))
                 => AccountCalls(out') # {}]_vars

\* the create flow has ended for a user who entered the name "Cancel" and the
\* duration "+9999": one create call with that name and 9999 days, and the
\* user has no state
C32_Witness ==
    /\ ev.kind = "message"
    /\ ev.state = "create_days"
    /\ ev.text = "+9999"
    /\ ev.from \notin DOMAIN userStates
    /\ \E i \in AccountCalls(out) :
         /\ out[i].ep = "/user/create"
         /\ out[i].password = "Cancel"
         /\ out[i].days = 9999

\* the selection list that the handling of a pagination token must show: the
\* action of the list and the prefix of the tokens of its account buttons
ListOfToken(data) ==
    CASE HasPrefix(data, "page_msg:")    -> [action |-> "user_msg", prefix |-> "select_user_msg:"]
      [] HasPrefix(data, "page_delete:") -> [action |-> "delete", prefix |-> "select_delete:"]
      [] HasPrefix(data, "page_renew:")  -> [action |-> "renew", prefix |-> "select_renew:"]
      [] OTHER -> [action |-> "", prefix |-> ""]

\* C33: the selection list shown for a press of page_delete:<n>,
\* page_renew:<n> or page_msg:<n> is the list of that action: for page_msg:
\* the list of recipients of a private message, whose account buttons carry
\* select_user_msg: tokens.
C33_PaginationShowsItsOwnList ==
    (ev.kind = "callback" /\ ListOfToken(ev.text).action # "") =>
        \A i \in 1..Len(out) :
            out[i].k = "select" =>
                /\ out[i].action = ListOfToken(ev.text).action
                /\ \E j \in 1..Len(out[i].buttons) :
                     HasPrefix(out[i].buttons[j], ListOfToken(ev.text).prefix)

\* the users whose session this step takes out of the registry
Removed == DOMAIN activeChats \ DOMAIN activeChats'

\* C36: a session leaves the registry only in the step of a broadcast whose
\* delivery attempt to that session failed; no other update, cancel, toggle,
\* private message or end of a flow removes a session, and the
\* administrator's session is never removed.
C36_RemovedOnlyByFailedDelivery ==
    [][/\ Removed \subseteq FailedRecipients(out')
       /\ AdminID \notin Removed]_vars

\* a broadcast has run, the delivery to a recipient failed and their session
\* is gone, and the sessions of the administrator and of a recipient who was
\* reached are still there
C36_Witness ==
    /\ ev.state = "broadcast_message"
    /\ AdminID \in DOMAIN activeChats
    /\ \E i, j \in Attempts(out) :
         /\ ~out[i].ok
         /\ out[i].uid \notin DOMAIN activeChats
         /\ out[j].ok
         /\ out[j].uid \in DOMAIN activeChats

\* the scratch data of user u have the field
HasField(u, field) == u \in DOMAIN tempUserData /\ field \in DOMAIN tempUserData[u]

\* C38: in every reachable state a user at create_username has scratch data,
\* a user at create_days or renew_days has scratch data with the account
\* name, and a user at private_message has scratch data with the target;
\* and a message handled at private_message leaves its sender without a
\* state.
C38_StateHasItsScratchData ==
    /\ \A u \in DOMAIN userStates :
         /\ userStates[u] = "create_username" => u \in DOMAIN tempUserData
         /\ userStates[u] \in {"create_days", "renew_days"} => HasField(u, "username")
         /\ userStates[u] = "private_message" => HasField(u, "target_user")
    /\ (ev.kind = "message" /\ ev.state = "private_message" /\ route = "state")
         => (crashed \/ ev.from \notin DOMAIN userStates)

\* a user at create_days, with a name collected, has pressed the button of a
\* recipient and is at private_message with the target as the only field
C38_Witness ==
    /\ ev.kind = "callback"
    /\ ev.state = "create_days"
    /\ ev.text = "select_user_msg:alice"
    /\ Lookup(userStates, ev.from) = "private_message"
    /\ HasField(ev.from, "target_user")
    /\ ~HasField(ev.from, "username")

\* the state tags of the flows that belong to the administrator
AdminStates == {"broadcast_message", "private_message", "waiting_restore_file"}

\* C39: in every reachable state only the administrator is at
\* broadcast_message, private_message or waiting_restore_file, and no
\* delivery and no restore is caused by an update of another user.
C39_AdminFlowsOnlyForAdmin ==
    /\ \A u \in DOMAIN userStates : userStates[u] \in AdminStates => u = AdminID
    /\ (ev.kind \in {"message", "callback"} /\ ev.from # AdminID)
         => (~Sent(out, "deliver") /\ route # "restore")

\* C40: when a document has been handed to processRestoreFile, its sender has
\* neither state nor scratch data afterwards, whether the download failed,
\* the archive was invalid or the restore was done, and the progress notice,
\* sent before the download, already goes out without a state; a document
\* that arrives while the sender is not at waiting_restore_file starts no
\* restore.
C40_RestoreClearsStateFirst ==
    /\ route = "restore" =>
         /\ ev.from \notin DOMAIN userStates
         /\ ev.from \notin DOMAIN tempUserData
         /\ out[1].k = "msg" /\ out[1].tag = "restore_progress"
         /\ ev.chat = ev.from => ~out[1].cancel
    /\ (ev.kind = "message" /\ ev.upload # NoUpload /\ ev.state # "waiting_restore_file")
         => route # "restore"

\* the download of the document failed and the administrator is idle
C40_Witness ==
    /\ route = "restore"
    /\ ev.from = AdminID
    /\ ev.state = "waiting_restore_file"
    /\ ev.upload.fail \in DownloadFailures
    /\ AdminID \notin DOMAIN userStates
    /\ ~Sent(out, "write")

\* the delete request for message id of chat has been made
Requested(chat, id) ==
    \E i \in 1..Len(deleteRequests) : deleteRequests[i] = [chat |-> chat, id |-> id]

\* C34: one message id at most is tracked for a chat.  sendAndTrack first
\* requests the deletion of the message tracked for the chat and drops its
\* id, then records the id of the new message if the send succeeded: so no
\* message is requested for deletion twice, every message sent before the
\* tracked one has been requested for deletion, the tracked one has not, and
\* after a failed send nothing is tracked for the chat.
C34_OneTrackedMessagePerChat ==
    /\ \A i, j \in 1..Len(deleteRequests) :
         deleteRequests[i] = deleteRequests[j] => i = j
    /\ \A chat \in DOMAIN lastMessageIDs : ~Requested(chat, lastMessageIDs[chat])
    /\ \A chat \in TrackedChats : \A id \in 1..sentMessages[chat] :
         \/ Requested(chat, id)
         \/ chat \in DOMAIN lastMessageIDs /\ lastMessageIDs[chat] = id
    /\ ev.kind = "tracked_send" =>
         IF out[1].ok
         THEN ev.chat \in DOMAIN lastMessageIDs /\ lastMessageIDs[ev.chat] = out[1].id
         ELSE ev.chat \notin DOMAIN lastMessageIDs

\* a send to a chat with a tracked message has failed: the deletion of the
\* old message was requested and nothing is tracked for the chat
C34_Witness ==
    /\ ev.kind = "tracked_send"
    /\ ~out[1].ok
    /\ sentMessages[ev.chat] = 2
    /\ Requested(ev.chat, 1)
    /\ Requested(ev.chat, 2)
    /\ ev.chat \notin DOMAIN lastMessageIDs

\* C37: a backend call that the backend has accepted returns to its caller,
\* also when the backend never answers, and the main loop gets to wait for
\* the next update (or the handler ends the process).
C37_BackendCallReturns ==
    (call = "sent") ~> (call = "none" /\ (ev = NoEvent \/ crashed))

\* C35: updates are handled one at a time.  An update is taken only when no
\* handler runs.  From the first to the last delivery attempt of a broadcast
\* no other update is handled: each step is the next iteration of the loop,
\* which at most takes the session it has just tried out of the registry,
\* and the states and the scratch data stay as they are until the loop has
\* ended.
C35_OneUpdateAtATime ==
    [][/\ ev' # ev => (ev = NoEvent \/ ev' = NoEvent)
       /\ fanout # NoFanout =>
            /\ ev' = ev
            /\ IF fanout' # NoFanout
               THEN /\ fanout'.todo = Tail(fanout.todo)
                    /\ activeChats' \in {activeChats, Del(activeChats, Head(fanout.todo))}
                    /\ userStates' = userStates
                    /\ tempUserData' = tempUserData
               ELSE /\ Len(fanout.todo) = 0
                    /\ activeChats' = activeChats]_vars

\* a broadcast is under way: one recipient was not reached and is out of the
\* registry, another is still to come
C35_Witness ==
    /\ fanout # NoFanout
    /\ Len(fanout.todo) > 0
    /\ fanout.todo[1] # AdminID
    /\ \E i \in Attempts(out) : ~out[i].ok /\ out[i].uid \notin DOMAIN activeChats
====
